---------------------------- MODULE Spec2Model ----------------------------
(***************************************************************************)
(* Model of the export/import dependency analysis of treeshake-check       *)
(* (src/src/analyzers/exports.ts, second listing, lines 289-832).          *)
(*                                                                         *)
(* Strings are modelled as sequences of tokens: "/p/a.ts" is               *)
(* <<"/", "p", "/", "a", ".ts">>, the specifier "./b.js" is                *)
(* <<".", "/", "b", ".js">>.  Concatenation, startsWith, endsWith and      *)
(* slice are the sequence operations on tokens.                            *)
(***************************************************************************)
EXTENDS Integers, Sequences, FiniteSets, TLC

VARIABLES
  fs,          \* filesystem snapshot: path -> [kind, ino]
  source,      \* text of each file of the list: path -> sequence of statements
  unreadable,  \* files for which readFileSync throws
  files,       \* the input file list (analyzeUnusedExports' first argument)
  projectPath, \* the project root (second argument)
  pc,          \* position inside analyzeUnusedExports
  idx,         \* position of buildExportGraph's loop in `files`
  exports,     \* graph.exports: file -> insertion-ordered set of export names
  imports,     \* graph.imports: file -> list of ImportRecord
  parsed,      \* per merged file: the value of the `parsed` flag at merge time
  unusedExports, \* result of findUnusedExports
  cycles,      \* result of findCircularDependencies
  issues,      \* the TreeShakingIssue list being returned
  query,       \* resolver probe: the (fromFile, importPath) pairs last resolved
  answer       \* resolver probe: the node keys resolveImportPath returned

vars == <<fs, source, unreadable, files, projectPath, pc, idx, exports, imports,
          parsed, unusedExports, cycles, issues, query, answer>>

-----------------------------------------------------------------------------
(* Token strings                                                           *)

Last(s) == s[Len(s)]

Front(s) == SubSeq(s, 1, Len(s) - 1)

StartsWith(s, t) == Len(s) >= Len(t) /\ SubSeq(s, 1, Len(t)) = t

EndsWith(s, t) == Len(s) >= Len(t) /\ SubSeq(s, Len(s) - Len(t) + 1, Len(s)) = t

Range(s) == {s[i] : i \in 1..Len(s)}

\* Tokens whose first character is a dot.
DotTokens == {".", "..", ".ts", ".tsx", ".js", ".jsx", ".mjs", ".mts"}

\* String.prototype.startsWith(".")
StartsWithDot(s) == Len(s) > 0 /\ s[1] \in DotTokens

\* String.prototype.toLowerCase, token by token.
LowerToken(t) ==
  CASE t = "Index" -> "index"
    [] t = "Main" -> "main"
    [] t = "App" -> "app"
    [] t = "Src" -> "src"
    [] OTHER -> t

toLowerCase(s) == [i \in 1..Len(s) |-> LowerToken(s[i])]

-----------------------------------------------------------------------------
(* node:path                                                               *)

RECURSIVE SplitAcc(_, _, _)
SplitAcc(s, cur, acc) ==
  IF s = <<>> THEN Append(acc, cur)
  ELSE IF Head(s) = "/" THEN SplitAcc(Tail(s), <<>>, Append(acc, cur))
  ELSE SplitAcc(Tail(s), Append(cur, Head(s)), acc)

\* s.split("/")
Split(s) == SplitAcc(s, <<>>, <<>>)

RECURSIVE NormalizeSegs(_, _)
NormalizeSegs(segs, acc) ==
  IF segs = <<>> THEN acc
  ELSE LET g == Head(segs) IN
       IF g = <<>> \/ g = <<".">> THEN NormalizeSegs(Tail(segs), acc)
       ELSE IF g = <<"..">>
            THEN NormalizeSegs(Tail(segs), IF acc = <<>> THEN acc ELSE Front(acc))
       ELSE NormalizeSegs(Tail(segs), Append(acc, g))

RECURSIVE JoinAbs(_)
JoinAbs(segs) ==
  IF segs = <<>> THEN <<>> ELSE <<"/">> \o Head(segs) \o JoinAbs(Tail(segs))

\* An absolute path from its normalized segments ("/" for none).
AbsPath(segs) == IF segs = <<>> THEN <<"/">> ELSE JoinAbs(segs)

\* path.resolve(dir, p) for an absolute dir and a relative p.
resolve(dir, p) == AbsPath(NormalizeSegs(Split(dir) \o Split(p), <<>>))

\* path.dirname(file) for an absolute file path.
dirname(file) == AbsPath(Front(NormalizeSegs(Split(file), <<>>)))

\* path.join(dirPath, name) for an absolute dirPath and a plain name.
join(dirPath, name) == AbsPath(NormalizeSegs(Split(dirPath) \o <<name>>, <<>>))

RECURSIVE JoinRel(_)
JoinRel(segs) ==
  IF segs = <<>> THEN <<>>
  ELSE IF Len(segs) = 1 THEN Head(segs)
  ELSE Head(segs) \o <<"/">> \o JoinRel(Tail(segs))

RECURSIVE CommonLen(_, _)
CommonLen(a, b) ==
  IF a = <<>> \/ b = <<>> \/ Head(a) # Head(b) THEN 0
  ELSE 1 + CommonLen(Tail(a), Tail(b))

\* path.relative(from, to) for absolute paths.
relative(from, to) ==
  LET f == NormalizeSegs(Split(from), <<>>)
      t == NormalizeSegs(Split(to), <<>>)
      k == CommonLen(f, t)
      ups == [i \in 1..(Len(f) - k) |-> <<"..">>]
  IN JoinRel(ups \o SubSeq(t, k + 1, Len(t)))

-----------------------------------------------------------------------------
(* node:fs                                                                 *)

existsSync(p) == p \in DOMAIN fs

isDirectory(p) == fs[p].kind = "dir"

-----------------------------------------------------------------------------
(* Module resolver                                                         *)

RESOLVE_EXTENSIONS == <<".ts", ".tsx", ".js", ".jsx", ".mjs", ".mts">>

\* The first element of the candidate list that exists, <<>> (null) if none.
RECURSIVE FirstExisting(_)
FirstExisting(cands) ==
  IF cands = <<>> THEN <<>>
  ELSE IF existsSync(Head(cands)) THEN Head(cands)
  ELSE FirstExisting(Tail(cands))

resolveIndexFile(dirPath) ==
  FirstExisting([i \in 1..Len(RESOLVE_EXTENSIONS) |->
                   join(dirPath, <<"index", RESOLVE_EXTENSIONS[i]>>)])

\* Step 3 of resolveImportPath: the candidates of the .js/.jsx convention.
SourceCandidates(resolved) ==
  IF EndsWith(resolved, <<".js">>)
  THEN LET base == Front(resolved)
       IN <<base \o <<".ts">>, base \o <<".tsx">>, base \o <<".js">>>>
  ELSE IF EndsWith(resolved, <<".jsx">>)
  THEN LET base == Front(resolved)
       IN <<base \o <<".tsx">>, base \o <<".jsx">>>>
  ELSE <<>>

\* The resolver with step 3 ahead of step 2: the source names of a
\* compiled-output name are probed before the extensions are appended.
resolveImportPathSourcesFirst(fromFile, importPath) ==
  IF StartsWithDot(importPath)
  THEN LET resolved == resolve(dirname(fromFile), importPath)
           withExt == FirstExisting([i \in 1..Len(RESOLVE_EXTENSIONS) |->
                                        resolved \o <<RESOLVE_EXTENSIONS[i]>>])
           bySource == FirstExisting(SourceCandidates(resolved))
           indexResolved == resolveIndexFile(resolved)
       IN IF existsSync(resolved)
          THEN IF isDirectory(resolved)
               THEN (IF indexResolved # <<>> THEN indexResolved ELSE resolved)
               ELSE resolved
          ELSE IF bySource # <<>> THEN bySource
          ELSE IF withExt # <<>> THEN withExt
          ELSE IF indexResolved # <<>> THEN indexResolved
          ELSE resolved
  ELSE importPath

\* The resolver with a directory that has no index file falling through to
\* the steps that follow instead of being returned.
resolveImportPathFallThrough(fromFile, importPath) ==
  IF StartsWithDot(importPath)
  THEN LET resolved == resolve(dirname(fromFile), importPath)
           withExt == FirstExisting([i \in 1..Len(RESOLVE_EXTENSIONS) |->
                                        resolved \o <<RESOLVE_EXTENSIONS[i]>>])
           bySource == FirstExisting(SourceCandidates(resolved))
           indexResolved == resolveIndexFile(resolved)
       IN IF existsSync(resolved) /\ ~isDirectory(resolved) THEN resolved
          ELSE IF indexResolved # <<>> /\ existsSync(resolved) THEN indexResolved
          ELSE IF withExt # <<>> THEN withExt
          ELSE IF bySource # <<>> THEN bySource
          ELSE IF indexResolved # <<>> THEN indexResolved
          ELSE resolved
  ELSE importPath

resolveImportPath(fromFile, importPath) ==
  IF StartsWithDot(importPath)
  THEN LET dir == dirname(fromFile)
           resolved == resolve(dir, importPath)
           withExt == FirstExisting([i \in 1..Len(RESOLVE_EXTENSIONS) |->
                                        resolved \o <<RESOLVE_EXTENSIONS[i]>>])
           bySource == FirstExisting(SourceCandidates(resolved))
           indexResolved == resolveIndexFile(resolved)
       IN IF existsSync(resolved)
          THEN IF isDirectory(resolved)
               THEN (IF resolveIndexFile(resolved) # <<>>
                     THEN resolveIndexFile(resolved) ELSE resolved)
               ELSE resolved
          ELSE IF withExt # <<>> THEN withExt
          ELSE IF bySource # <<>> THEN bySource
          ELSE IF indexResolved # <<>> THEN indexResolved
          ELSE resolved
  ELSE importPath


-----------------------------------------------------------------------------
(* Source text.  A file is the sequence of its module-level statements;    *)
(* a statement is [form, specs, src]: specs are the (name, alias) pairs it *)
(* lists (alias = name where the text has no `as`), src its source         *)
(* specifier (<<>> when it has none).                                      *)

Stmt(form, specs, src) == [form |-> form, specs |-> specs, src |-> src]

Name(n) == [name |-> n, alias |-> n]

Renamed(n, a) == [name |-> n, alias |-> a]

\* Forms acorn rejects with ecmaVersion "latest", sourceType "module".
TsOnlyForms == {"exportType", "tsCode"}

\* acorn.parse(content, ...) returns instead of throwing.
AcornParses(content) == \A i \in 1..Len(content) : content[i].form \notin TsOnlyForms

\* Set.prototype.add on an insertion-ordered set.
SetAdd(set, x) == IF x \in Range(set) THEN set ELSE Append(set, x)

ImportRecord(importedName, sourceFile) ==
  [importedName |-> importedName, sourceFile |-> sourceFile]

\* The export-set entry of `export * from S`.
WildcardEntry(src) == <<"*", " from ">> \o src

\* An extraction buffer: the locals fileExports and fileImports.
Buffer(ex, im) == [fileExports |-> ex, fileImports |-> im]

EmptyBuffer == Buffer(<<>>, <<>>)

-----------------------------------------------------------------------------
(* Primary extractor: the walk.simple visitors                             *)

\* The re-export recorded under the exported name instead of the local one.
RECURSIVE ExportSpecifiersByAlias(_, _, _, _)
ExportSpecifiersByAlias(file, specs, src, buf) ==
  IF specs = <<>> THEN buf
  ELSE LET spec == Head(specs)
           ex == SetAdd(buf.fileExports, spec.alias)
           im == IF src # <<>>
                 THEN Append(buf.fileImports,
                             ImportRecord(spec.alias, resolveImportPath(file, src)))
                 ELSE buf.fileImports
       IN ExportSpecifiersByAlias(file, Tail(specs), src, Buffer(ex, im))

RECURSIVE ExportSpecifiers(_, _, _, _)
ExportSpecifiers(file, specs, src, buf) ==
  IF specs = <<>> THEN buf
  ELSE LET spec == Head(specs)
           ex == SetAdd(buf.fileExports, spec.alias)
           im == IF src # <<>>
                 THEN Append(buf.fileImports,
                             ImportRecord(spec.name, resolveImportPath(file, src)))
                 ELSE buf.fileImports
       IN ExportSpecifiers(file, Tail(specs), src, Buffer(ex, im))

RECURSIVE AddDeclared(_, _)
AddDeclared(specs, ex) ==
  IF specs = <<>> THEN ex ELSE AddDeclared(Tail(specs), SetAdd(ex, Head(specs).name))

ExportNamedDeclaration(file, node, buf) ==
  IF node.form = "exportList"
  THEN ExportSpecifiers(file, node.specs, node.src, buf)
  ELSE Buffer(AddDeclared(node.specs, buf.fileExports), buf.fileImports)

ExportDefaultDeclaration(buf) ==
  Buffer(SetAdd(buf.fileExports, <<"default">>), buf.fileImports)

\* The visitor without the namespace import record.
ExportAllDeclarationNoImport(file, node, buf) ==
  IF node.src # <<>>
  THEN Buffer(SetAdd(buf.fileExports, WildcardEntry(node.src)), buf.fileImports)
  ELSE buf

ExportAllDeclaration(file, node, buf) ==
  IF node.src # <<>>
  THEN Buffer(SetAdd(buf.fileExports, WildcardEntry(node.src)),
              Append(buf.fileImports,
                     ImportRecord(<<"*">>, resolveImportPath(file, node.src))))
  ELSE buf

RECURSIVE ImportSpecifiers(_, _, _, _)
ImportSpecifiers(file, specs, src, im) ==
  IF specs = <<>> THEN im
  ELSE ImportSpecifiers(file, Tail(specs), src,
         Append(im, ImportRecord(Head(specs).name, resolveImportPath(file, src))))

ImportDeclaration(file, node, buf) ==
  IF node.src = <<>> THEN buf
  ELSE CASE node.form = "importNamed" ->
              Buffer(buf.fileExports,
                     ImportSpecifiers(file, node.specs, node.src, buf.fileImports))
         [] node.form = "importDefault" ->
              Buffer(buf.fileExports,
                     Append(buf.fileImports,
                            ImportRecord(<<"default">>, resolveImportPath(file, node.src))))
         [] node.form = "importNamespace" ->
              Buffer(buf.fileExports,
                     Append(buf.fileImports,
                            ImportRecord(<<"*">>, resolveImportPath(file, node.src))))
         [] node.form = "importMixed" ->
              \* import d, { a } from S: the default specifier, then the list
              Buffer(buf.fileExports,
                     ImportSpecifiers(file, node.specs, node.src,
                       Append(buf.fileImports,
                              ImportRecord(<<"default">>, resolveImportPath(file, node.src)))))
         [] OTHER -> buf

Visit(file, node, buf) ==
  CASE node.form \in {"exportDecl", "exportList"} -> ExportNamedDeclaration(file, node, buf)
    [] node.form = "exportDefault" -> ExportDefaultDeclaration(buf)
    [] node.form = "exportAll" -> ExportAllDeclaration(file, node, buf)
    [] node.form \in {"importNamed", "importDefault", "importNamespace", "importMixed"} ->
         ImportDeclaration(file, node, buf)
    [] OTHER -> buf

\* walk.simple(ast, visitors) over the statements of a parsed file.
RECURSIVE walkSimple(_, _, _)
walkSimple(file, ast, buf) ==
  IF ast = <<>> THEN buf
  ELSE walkSimple(file, Tail(ast), Visit(file, Head(ast), buf))

\* The statements that precede the first one acorn rejects.
RECURSIVE ParseablePrefix(_)
ParseablePrefix(content) ==
  IF content = <<>> \/ Head(content).form \in TsOnlyForms THEN <<>>
  ELSE <<Head(content)>> \o ParseablePrefix(Tail(content))

\* A streaming parse: the visitors run on each statement as it is parsed, so a
\* failure leaves the records of the statements before it in the buffers.
PrimaryExtractStreaming(file, content) ==
  [parsed |-> AcornParses(content),
   buf |-> walkSimple(file, ParseablePrefix(content), EmptyBuffer)]

\* The inner try block: acorn.parse, then walk.simple, then parsed = true.
\* acorn.parse throws before any visitor runs.
PrimaryExtract(file, content) ==
  IF AcornParses(content)
  THEN [parsed |-> TRUE, buf |-> walkSimple(file, content, EmptyBuffer)]
  ELSE [parsed |-> FALSE, buf |-> EmptyBuffer]

-----------------------------------------------------------------------------
(* Fallback extractor: one pass per regular expression, in the code's order *)

RECURSIVE AddAliases(_, _)
AddAliases(specs, ex) ==
  IF specs = <<>> THEN ex ELSE AddAliases(Tail(specs), SetAdd(ex, Head(specs).alias))

\* What one match of the pass's pattern adds to the buffers.
RegexMatch(pass, file, st, buf) ==
  CASE pass = "exportDefault" -> Buffer(SetAdd(buf.fileExports, <<"default">>), buf.fileImports)
    [] pass \in {"exportDecl", "exportType"} ->
         \* match[1]: the identifier after the declaration keyword
         Buffer(SetAdd(buf.fileExports, Head(st.specs).name), buf.fileImports)
    [] pass = "exportList" ->
         Buffer(AddAliases(st.specs, buf.fileExports),
                IF st.src # <<>>
                THEN ImportSpecifiers(file, st.specs, st.src, buf.fileImports)
                ELSE buf.fileImports)
    [] pass = "exportAll" ->
         Buffer(SetAdd(buf.fileExports, WildcardEntry(st.src)),
                Append(buf.fileImports,
                       ImportRecord(<<"*">>, resolveImportPath(file, st.src))))
    [] pass = "importNamed" ->
         Buffer(buf.fileExports, ImportSpecifiers(file, st.specs, st.src, buf.fileImports))
    [] pass = "importDefault" ->
         Buffer(buf.fileExports,
                Append(buf.fileImports,
                       ImportRecord(<<"default">>, resolveImportPath(file, st.src))))
    [] pass = "importNamespace" ->
         Buffer(buf.fileExports,
                Append(buf.fileImports,
                       ImportRecord(<<"*">>, resolveImportPath(file, st.src))))
    [] OTHER -> buf

RECURSIVE RegexPass(_, _, _, _)
RegexPass(pass, file, content, buf) ==
  IF content = <<>> THEN buf
  ELSE RegexPass(pass, file, Tail(content),
                 IF Head(content).form = pass
                 THEN RegexMatch(pass, file, Head(content), buf)
                 ELSE buf)

\* The patterns in the order the function applies them.
RegexPasses == <<"exportDefault", "exportDecl", "exportList", "exportAll",
                 "exportType", "importNamed", "importDefault", "importNamespace">>

RECURSIVE RegexPassesFrom(_, _, _, _)
RegexPassesFrom(k, file, content, buf) ==
  IF k > Len(RegexPasses) THEN buf
  ELSE RegexPassesFrom(k + 1, file, content, RegexPass(RegexPasses[k], file, content, buf))

extractExportsAndImportsViaRegex(content, file, buf) ==
  RegexPassesFrom(1, file, content, buf)

-----------------------------------------------------------------------------
(* Graph builder: one iteration of buildExportGraph's loop                 *)

\* The body of the outer try for a file that could be read: the buffers as
\* they are when exports.set / imports.set run, and the parsed flag.
ExtractFile(file, content) ==
  LET primary == PrimaryExtract(file, content)
  IN [parsed |-> primary.parsed,
      buf |-> IF primary.parsed THEN primary.buf
              ELSE extractExportsAndImportsViaRegex(content, file, primary.buf)]

\* Map.prototype.set
MapSet(map, key, value) ==
  [k \in DOMAIN map \cup {key} |-> IF k = key THEN value ELSE map[k]]

-----------------------------------------------------------------------------
(* Unused-export detector                                                  *)

\* The keys of a graph map in insertion order: the merged files, in list order.
RECURSIVE MapKeys(_, _, _)
MapKeys(map, fileList, seen) ==
  IF fileList = <<>> THEN <<>>
  ELSE LET f == Head(fileList) IN
       IF f \in DOMAIN map /\ f \notin seen
       THEN <<f>> \o MapKeys(map, Tail(fileList), seen \cup {f})
       ELSE MapKeys(map, Tail(fileList), seen)

\* The records of a file kept under their imported name: a later record of
\* the same name replaces the earlier one.
usedInFileLastTarget(importsMap, file) ==
  {importsMap[f][i].importedName :
     <<f, i>> \in {<<g, j>> \in UNION {{<<g, j>> : j \in 1..Len(importsMap[g])} :
                                         g \in DOMAIN importsMap} :
                     /\ importsMap[g][j].sourceFile = file
                     /\ \A k \in (j + 1)..Len(importsMap[g]) :
                          importsMap[g][k].importedName # importsMap[g][j].importedName}}

\* allImports.get(file) || new Set(): the names imported from `file` anywhere.
usedInFile(importsMap, file) ==
  {importsMap[f][i].importedName :
     <<f, i>> \in {<<g, j>> \in UNION {{<<g, j>> : j \in 1..Len(importsMap[g])} :
                                         g \in DOMAIN importsMap} :
                     importsMap[g][j].sourceFile = file}}

\* A default import taken to consume every export of its target.
isUsedByAnyDefault(used, exportName) ==
  \/ exportName \in used
  \/ <<"*">> \in used
  \/ <<"default">> \in used

isUsed(used, exportName) ==
  \/ exportName \in used
  \/ <<"*">> \in used
  \/ (exportName = <<"default">> /\ <<"default">> \in used)

\* The inner loop of findUnusedExports over one file's export set.
RECURSIVE UnusedOfFile(_, _, _)
UnusedOfFile(file, fileExports, used) ==
  IF fileExports = <<>> THEN <<>>
  ELSE LET exportName == Head(fileExports)
           rest == UnusedOfFile(file, Tail(fileExports), used)
       IN IF StartsWith(exportName, <<"*">>) THEN rest
          ELSE IF ~isUsed(used, exportName)
          THEN <<[file |-> file, exportName |-> exportName]>> \o rest
          ELSE rest

RECURSIVE UnusedOfFiles(_, _, _)
UnusedOfFiles(keys, exportsMap, importsMap) ==
  IF keys = <<>> THEN <<>>
  ELSE UnusedOfFile(Head(keys), exportsMap[Head(keys)], usedInFile(importsMap, Head(keys)))
       \o UnusedOfFiles(Tail(keys), exportsMap, importsMap)

findUnusedExports(exportsMap, importsMap, fileList) ==
  UnusedOfFiles(MapKeys(exportsMap, fileList, {}), exportsMap, importsMap)

\* The entry patterns, each as the token prefix it requires before an
\* extension token: ^src\/index\. ^src\/main\. ^src\/app\. ^index\. ^main\.
entryPatterns ==
  <<<<"src", "/", "index">>, <<"src", "/", "main">>, <<"src", "/", "app">>,
    <<"index">>, <<"main">>>>

\* pattern.test(relPath): the prefix, then a literal dot.
PatternTest(pattern, relPath) ==
  /\ StartsWith(relPath, pattern)
  /\ Len(relPath) > Len(pattern)
  /\ relPath[Len(pattern) + 1] \in DotTokens

isEntryPoint(file, root) ==
  LET relPath == toLowerCase(relative(root, file))
  IN \E i \in 1..Len(entryPatterns) : PatternTest(entryPatterns[i], relPath)

Issue(type, severity, file, pattern, cycle, impact) ==
  [type |-> type, severity |-> severity, file |-> file, pattern |-> pattern,
   cycle |-> cycle, estimatedImpact |-> impact]

\* The first loop without the entry-point test.
RECURSIVE UnusedIssuesNoExemption(_, _)
UnusedIssuesNoExemption(unused, root) ==
  IF unused = <<>> THEN <<>>
  ELSE LET u == Head(unused) IN
       <<Issue("unused-export", "low", relative(root, u.file),
               <<"export ">> \o u.exportName, <<>>, 500)>>
       \o UnusedIssuesNoExemption(Tail(unused), root)

\* The first loop of analyzeUnusedExports: one issue per unused export that is
\* not in an entry point.
RECURSIVE UnusedIssues(_, _)
UnusedIssues(unused, root) ==
  IF unused = <<>> THEN <<>>
  ELSE LET u == Head(unused) IN
       IF isEntryPoint(u.file, root) THEN UnusedIssues(Tail(unused), root)
       ELSE <<Issue("unused-export", "low", relative(root, u.file),
                    <<"export ">> \o u.exportName, <<>>, 500)>>
            \o UnusedIssues(Tail(unused), root)

-----------------------------------------------------------------------------
(* Cycle detector                                                          *)

\* Code-unit order of the tokens, for Array.prototype.sort without comparator.
TokenOrder ==
  <<".", "..", ".js", ".jsx", ".mjs", ".mts", ".ts", ".tsx", "/", "App",
    "Index", "Main", "Src", "a", "app", "b", "c", "index", "lib", "main", "p",
    "react", "src", "|">>

Rank(t) == CHOOSE i \in 1..Len(TokenOrder) : TokenOrder[i] = t

RECURSIVE StrLess(_, _)
StrLess(a, b) ==
  IF b = <<>> THEN FALSE
  ELSE IF a = <<>> THEN TRUE
  ELSE IF Head(a) = Head(b) THEN StrLess(Tail(a), Tail(b))
  ELSE Rank(Head(a)) < Rank(Head(b))

RECURSIVE Insert(_, _)
Insert(x, sorted) ==
  IF sorted = <<>> THEN <<x>>
  ELSE IF StrLess(Head(sorted), x) THEN <<Head(sorted)>> \o Insert(x, Tail(sorted))
  ELSE <<x>> \o sorted

RECURSIVE sort(_)
sort(strs) == IF strs = <<>> THEN <<>> ELSE Insert(Head(strs), sort(Tail(strs)))

\* Array.prototype.join(sep)
RECURSIVE joinWith(_, _)
joinWith(strs, sep) ==
  IF strs = <<>> THEN <<>>
  ELSE IF Len(strs) = 1 THEN Head(strs)
  ELSE Head(strs) \o <<sep>> \o joinWith(Tail(strs), sep)

relFiles(cycle, root) == [i \in 1..Len(cycle) |-> relative(root, cycle[i])]

edgeKey(cycle, root) == joinWith(sort(relFiles(cycle, root)), "|")

\* The local dependencies of one file: a Set, in the order of first import.
RECURSIVE Deps(_, _)
Deps(fileImports, fileSet) ==
  IF fileImports = <<>> THEN <<>>
  ELSE LET rest == Deps(Front(fileImports), fileSet)
           sourceFile == Last(fileImports).sourceFile
       IN IF sourceFile \in fileSet THEN SetAdd(rest, sourceFile) ELSE rest

adjacency(importsMap, fileList) ==
  [file \in DOMAIN importsMap |-> Deps(importsMap[file], Range(fileList))]

\* Array.prototype.indexOf, 1-based, 0 for "not found".
indexOf(path, node) ==
  IF node \in Range(path)
  THEN CHOOSE i \in 1..Len(path) : path[i] = node /\ \A j \in 1..(i - 1) : path[j] # node
  ELSE 0

\* The state of the traversal: the closure variables of dfs.
DfsState(c, v, s, r, p) ==
  [cycles |-> c, visited |-> v, inStack |-> s, reportedEdges |-> r, path |-> p]

\* The branch with the whole path taken as the cycle, not the slice that
\* starts at the node met again.
FoundCycleWholePath(node, st, root) ==
  LET cycleStart == indexOf(st.path, node) IN
  IF cycleStart # 0
  THEN LET cycle == st.path
           key == edgeKey(cycle, root)
       IN IF key \notin st.reportedEdges
          THEN [st EXCEPT !.reportedEdges = @ \cup {key}, !.cycles = Append(@, cycle)]
          ELSE st
  ELSE st

\* The branch of dfs taken when the node is on the stack.
FoundCycle(node, st, root) ==
  LET cycleStart == indexOf(st.path, node) IN
  IF cycleStart # 0
  THEN LET cycle == SubSeq(st.path, cycleStart, Len(st.path))
           key == edgeKey(cycle, root)
       IN IF key \notin st.reportedEdges
          THEN [st EXCEPT !.reportedEdges = @ \cup {key}, !.cycles = Append(@, cycle)]
          ELSE st
  ELSE st

RECURSIVE dfs(_, _, _, _)
RECURSIVE dfsDeps(_, _, _, _)
\* The traversal with a node marked visited when it is entered and the
\* visited test made first.
dfsMarkOnEntry(adj, node, st, root) ==
  IF node \in st.visited THEN st
  ELSE IF node \in st.inStack THEN FoundCycle(node, st, root)
  ELSE LET entered == [st EXCEPT !.inStack = @ \cup {node}, !.path = Append(@, node),
                                !.visited = @ \cup {node}]
           deps == IF node \in DOMAIN adj THEN adj[node] ELSE <<>>
           after == dfsDeps(adj, deps, entered, root)
       IN [after EXCEPT !.path = Front(@), !.inStack = @ \ {node}]

dfs(adj, node, st, root) ==
  IF node \in st.inStack THEN FoundCycle(node, st, root)
  ELSE IF node \in st.visited THEN st
  ELSE LET entered == [st EXCEPT !.inStack = @ \cup {node}, !.path = Append(@, node)]
           deps == IF node \in DOMAIN adj THEN adj[node] ELSE <<>>
           after == dfsDeps(adj, deps, entered, root)
       IN [after EXCEPT !.path = Front(@), !.inStack = @ \ {node},
                        !.visited = @ \cup {node}]

dfsDeps(adj, deps, st, root) ==
  IF deps = <<>> THEN st
  ELSE dfsDeps(adj, Tail(deps), dfs(adj, Head(deps), st, root), root)

\* The traversal state created anew for each start file.
RECURSIVE dfsFromFreshState(_, _, _, _)
dfsFromFreshState(adj, fileList, st, root) ==
  IF fileList = <<>> THEN st
  ELSE dfsFromFreshState(adj, Tail(fileList),
         dfs(adj, Head(fileList), DfsState(st.cycles, {}, {}, {}, <<>>), root), root)

RECURSIVE dfsFrom(_, _, _, _)
dfsFrom(adj, fileList, st, root) ==
  IF fileList = <<>> THEN st
  ELSE dfsFrom(adj, Tail(fileList),
               IF Head(fileList) \notin st.visited
               THEN dfs(adj, Head(fileList), [st EXCEPT !.path = <<>>], root)
               ELSE st,
               root)

findCircularDependencies(importsMap, fileList, root) ==
  dfsFrom(adjacency(importsMap, fileList), fileList,
          DfsState(<<>>, {}, {}, {}, <<>>), root).cycles

\* cycle.length < 2 ? "high" : "critical"
cycleSeverityBelowTwo(cycle) == IF Len(cycle) < 2 THEN "high" ELSE "critical"

\* cycle.length === 2 ? "high" : "critical"
cycleSeverityExactlyTwo(cycle) == IF Len(cycle) = 2 THEN "high" ELSE "critical"

\* cycle.length <= 2 ? "high" : "critical"
cycleSeverity(cycle) == IF Len(cycle) <= 2 THEN "high" ELSE "critical"

\* The second loop with the entry-point test of the first loop: a cycle with
\* an entry point among its members yields no issue.
CycleIssuesNoEntryPoints(found, root) ==
  LET kept == SelectSeq(found, LAMBDA c : \A k \in 1..Len(c) : ~isEntryPoint(c[k], root))
  IN [i \in 1..Len(kept) |->
        LET rel == relFiles(kept[i], root)
        IN Issue("circular-dependency", cycleSeverity(kept[i]), rel[1],
                 <<"circular">>, rel, Len(kept[i]) * 2000)]

\* The second loop of analyzeUnusedExports: one issue per cycle.
CycleIssues(found, root) ==
  [i \in 1..Len(found) |->
     LET rel == relFiles(found[i], root)
     IN Issue("circular-dependency", cycleSeverity(found[i]), rel[1],
              <<"circular">>, rel, Len(found[i]) * 2000)]

-----------------------------------------------------------------------------
(* analyzeUnusedExports as a state machine                                 *)

\* readFileSync(file, "utf-8") throws.
ReadFails(file) == file \in unreadable

\* The loop left after its first iteration.
BuildDoneAfterFirst == idx > 1

\* The loop of buildExportGraph has run over the whole list.
BuildDone == idx > Len(files)

\* The iteration with the try around the loop instead of inside it: a read
\* failure ends the loop.
BuildStepAbortOnError ==
  /\ pc = "build"
  /\ idx <= Len(files)
  /\ LET file == files[idx] IN
     IF file \in unreadable
     THEN /\ idx' = Len(files) + 1
          /\ UNCHANGED <<exports, imports, parsed>>
     ELSE LET r == ExtractFile(file, source[file]) IN
          /\ exports' = MapSet(exports, file, r.buf.fileExports)
          /\ imports' = MapSet(imports, file, r.buf.fileImports)
          /\ parsed' = MapSet(parsed, file, r.parsed)
          /\ idx' = idx + 1
  /\ UNCHANGED <<fs, source, unreadable, files, projectPath, pc, unusedExports,
                 cycles, issues, query, answer>>

\* The iteration with imports.set skipped for a file without import records.
BuildStepSkipEmptyImports ==
  /\ pc = "build"
  /\ ~BuildDone
  /\ LET file == files[idx] IN
     IF ReadFails(file)
     THEN UNCHANGED <<exports, imports, parsed>>
     ELSE LET r == ExtractFile(file, source[file]) IN
          /\ exports' = MapSet(exports, file, r.buf.fileExports)
          /\ imports' = IF r.buf.fileImports = <<>> THEN imports
                        ELSE MapSet(imports, file, r.buf.fileImports)
          /\ parsed' = MapSet(parsed, file, r.parsed)
  /\ idx' = idx + 1
  /\ UNCHANGED <<fs, source, unreadable, files, projectPath, pc, unusedExports,
                 cycles, issues, query, answer>>

\* One iteration of buildExportGraph's loop (lines 376-485).
BuildStep ==
  /\ pc = "build"
  /\ ~BuildDone
  /\ LET file == files[idx] IN
     IF ReadFails(file)
     THEN UNCHANGED <<exports, imports, parsed>>
     ELSE LET r == ExtractFile(file, source[file]) IN
          /\ exports' = MapSet(exports, file, r.buf.fileExports)
          /\ imports' = MapSet(imports, file, r.buf.fileImports)
          /\ parsed' = MapSet(parsed, file, r.parsed)
  /\ idx' = idx + 1
  /\ UNCHANGED <<fs, source, unreadable, files, projectPath, pc, unusedExports,
                 cycles, issues, query, answer>>

\* buildExportGraph returns the graph (line 487).
ReturnGraph ==
  /\ pc = "build"
  /\ BuildDone
  /\ pc' = "unused"
  /\ UNCHANGED <<fs, source, unreadable, files, projectPath, idx, exports, imports,
                 parsed, unusedExports, cycles, issues, query, answer>>

\* findUnusedExports and the loop over its result (lines 323-346).
FindUnused ==
  /\ pc = "unused"
  /\ unusedExports' = findUnusedExports(exports, imports, files)
  /\ issues' = issues \o UnusedIssues(unusedExports', projectPath)
  /\ pc' = "cycles"
  /\ UNCHANGED <<fs, source, unreadable, files, projectPath, idx, exports, imports,
                 parsed, cycles, query, answer>>

\* findCircularDependencies and the loop over its result (lines 349-367).
FindCycles ==
  /\ pc = "cycles"
  /\ cycles' = findCircularDependencies(imports, files, projectPath)
  /\ issues' = issues \o CycleIssues(cycles', projectPath)
  /\ pc' = "done"
  /\ UNCHANGED <<fs, source, unreadable, files, projectPath, idx, exports, imports,
                 parsed, unusedExports, query, answer>>

Next == BuildStep \/ ReturnGraph \/ FindUnused \/ FindCycles

-----------------------------------------------------------------------------
(* Inputs                                                                  *)

Root == <<"/", "p">>

FileA == <<"/", "p", "/", "a", ".ts">>

FileB == <<"/", "p", "/", "b", ".ts">>

FileIndex == <<"/", "p", "/", "index", ".ts">>

ProjectFiles == {FileA, FileB, FileIndex}

Dir(n) == [kind |-> "dir", ino |-> n]

File(n) == [kind |-> "file", ino |-> n]

\* The project on disk: /p with a.ts, b.ts and index.ts.
ProjectFs ==
  (<<"/">> :> Dir(1)) @@ (Root :> Dir(2)) @@ (FileA :> File(3)) @@ (FileB :> File(4))
  @@ (FileIndex :> File(5))

\* "./a" reaches a.ts by extension, "./b.js" reaches b.ts by the .js
\* convention, "." reaches index.ts as the directory's index file.
ToA == <<".", "/", "a">>

ToB == <<".", "/", "b", ".js">>

ToIndex == <<".">>

Bare == <<"react">>

foo == <<"foo">>

bar == <<"bar">>

\* Statements that need no source specifier.
LocalStmts ==
  { Stmt("exportDecl", <<Name(foo)>>, <<>>),
    Stmt("exportDefault", <<>>, <<>>) }

\* Statements that name a source module.
SourcedStmts(src) ==
  { Stmt("importNamed", <<Name(foo)>>, src),
    Stmt("importDefault", <<>>, src),
    Stmt("exportList", <<Renamed(foo, bar)>>, src),
    Stmt("exportAll", <<>>, src) }

Catalog ==
  LocalStmts \cup SourcedStmts(ToA) \cup {Stmt("importNamed", <<Name(foo)>>, ToIndex)}

\* A statement only TypeScript accepts, such as `let n: number = 1`.
TsCode == Stmt("tsCode", <<>>, <<>>)

\* The most statements a project holds, over all its files.
MaxStmts == 2

\* The most import statements a file of the cycle projects holds.
MaxImports == 2

StartAnalysis ==
  /\ projectPath = Root
  /\ pc = "build"
  /\ idx = 1
  /\ exports = <<>>
  /\ imports = <<>>
  /\ parsed = <<>>
  /\ unusedExports = <<>>
  /\ cycles = <<>>
  /\ issues = <<>>
  /\ query = <<>>
  /\ answer = <<>>

\* `text` with TypeScript-only code added to the files of `ts`.
WithTs(text, ts) ==
  [f \in DOMAIN text |-> IF f \in ts THEN Append(text[f], TsCode) ELSE text[f]]

AtMostOne(S) == {{}} \cup {{x} : x \in S}

\* The statement lists of a file: nothing is ever read of a file that cannot
\* be read, so its text is left empty.
Texts(f, len, bad) == IF f \in bad THEN {<<>>} ELSE [1..len -> Catalog]

\* Projects of at most MaxStmts statements; at most one file cannot be read
\* and at most one of the files with statements holds TypeScript-only code too.
Init ==
  /\ fs = ProjectFs
  /\ files = <<FileA, FileB, FileIndex>>
  /\ unreadable \in AtMostOne(ProjectFiles)
  /\ \E la \in 0..MaxStmts : \E lb \in 0..(MaxStmts - la) : \E li \in 0..(MaxStmts - la - lb) :
       \E sa \in Texts(FileA, la, unreadable) : \E sb \in Texts(FileB, lb, unreadable) :
         \E si \in Texts(FileIndex, li, unreadable) :
           LET text == (FileA :> sa) @@ (FileB :> sb) @@ (FileIndex :> si) IN
           \E ts \in AtMostOne({f \in ProjectFiles : text[f] # <<>>}) :
             source = WithTs(text, ts)
  /\ StartAnalysis

Spec == Init /\ [][Next]_vars


-----------------------------------------------------------------------------
(* Cycle projects: every file is a list of imports, the list in any order  *)

ImportFrom(src) == Stmt("importNamed", <<Name(foo)>>, src)

IsInjective(s) == \A i, j \in 1..Len(s) : s[i] = s[j] => i = j

\* The import lists of a file: at most MaxImports imports of distinct modules.
ImportLists ==
  UNION {{[i \in 1..k |-> ImportFrom(t[i])] :
            t \in {u \in [1..k -> {ToA, ToB, ToIndex}] : IsInjective(u)}} :
         k \in 0..MaxImports}

ListOrders ==
  {o \in [1..Cardinality(ProjectFiles) -> ProjectFiles] : IsInjective(o)}

\* Lists that leave one file of the project out, in any order.
PartialOrders ==
  {o \in [1..(Cardinality(ProjectFiles) - 1) -> ProjectFiles] : IsInjective(o)}

\* Nothing is read of a file that is not in the list: its text is left empty.
InitCycles ==
  /\ fs = ProjectFs
  /\ files \in ListOrders \cup PartialOrders
  /\ source \in [ProjectFiles -> ImportLists]
  /\ \A f \in ProjectFiles \ Range(files) : source[f] = <<>>
  /\ unreadable = {}
  /\ StartAnalysis

SpecCycles == InitCycles /\ [][Next]_vars

-----------------------------------------------------------------------------
(* Resolver probes: resolveImportPath applied to pairs of requests over a  *)
(* choice of filesystem snapshots                                          *)

DirLib == <<"/", "p", "/", "lib">>

DirA == <<"/", "p", "/", "a">>

FileAJs == <<"/", "p", "/", "a", ".js">>

FileAIndex == <<"/", "p", "/", "a", "/", "index", ".ts">>

\* A second name of a.ts: a symbolic link /p/link.ts -> a.ts.  existsSync and
\* statSync follow links, so the name exists and is a regular file.
LinkToA == <<"/", "p", "/", "link", ".ts">>

BaseFs == (<<"/">> :> Dir(1)) @@ (Root :> Dir(2)) @@ (DirLib :> Dir(6))

EmptyFs == [x \in {} |-> x]

Snapshots ==
  { BaseFs @@ s @@ j @@ d :
      s \in {EmptyFs, (FileA :> File(3)), (FileA :> File(3)) @@ (LinkToA :> File(3))},
      j \in {EmptyFs, (FileAJs :> File(7))},
      d \in {EmptyFs, (DirA :> Dir(8)), (DirA :> Dir(8)) @@ (FileAIndex :> File(9))} }

Importers == {<<"/", "p", "/", "m", ".ts">>, <<"/", "p", "/", "lib", "/", "n", ".ts">>}

Specifiers ==
  { ToA, <<".", "/", "a", ".js">>, <<"..", "/", "a">>, <<".", "/", "lib", "/", "..", "/", "a">>,
    <<".", "/", "link">>, Bare }

Requests == Importers \X Specifiers

InitResolve ==
  /\ fs \in Snapshots
  /\ files = <<>>
  /\ source = <<>>
  /\ unreadable = {}
  /\ projectPath = Root
  /\ pc = "resolve"
  /\ idx = 1
  /\ exports = <<>>
  /\ imports = <<>>
  /\ parsed = <<>>
  /\ unusedExports = <<>>
  /\ cycles = <<>>
  /\ issues = <<>>
  /\ query = <<>>
  /\ answer = <<>>

\* Two calls of resolveImportPath against the same snapshot.
ResolvePair ==
  /\ pc = "resolve"
  /\ \E q1 \in Requests : \E q2 \in Requests :
       /\ query' = <<q1, q2>>
       /\ answer' = <<resolveImportPath(q1[1], q1[2]), resolveImportPath(q2[1], q2[2])>>
  /\ pc' = "resolved"
  /\ UNCHANGED <<fs, source, unreadable, files, projectPath, idx, exports, imports,
                 parsed, unusedExports, cycles, issues>>

NextResolve == ResolvePair

SpecResolve == InitResolve /\ [][NextResolve]_vars

-----------------------------------------------------------------------------
(* Properties                                                              *)

\* The files the loop of buildExportGraph has gone through.
Processed == {files[i] : i \in 1..(idx - 1)}

Merged == DOMAIN exports

UnusedFindings == SelectSeq(issues, LAMBDA x : x.type = "unused-export")

CycleFindings == SelectSeq(issues, LAMBDA x : x.type = "circular-dependency")

DetectorsRan == pc \in {"cycles", "done"}

\* The finding analyzeUnusedExports writes for export n of file F.
FindingOf(F, n) == <<relative(projectPath, F), <<"export ">> \o n>>

Reported == {<<UnusedFindings[i].file, UnusedFindings[i].pattern>> :
               i \in 1..Len(UnusedFindings)}

NonWildcard(n) == ~StartsWith(n, <<"*">>)

\* Some import record of the graph targets F.
Imported(F) ==
  \E g \in DOMAIN imports : \E i \in 1..Len(imports[g]) : imports[g][i].sourceFile = F

\* Some import record of the graph consumes export n of F.
Consumed(F, n) ==
  \E g \in DOMAIN imports : \E i \in 1..Len(imports[g]) :
    /\ imports[g][i].sourceFile = F
    /\ imports[g][i].importedName \in {n, <<"*">>}

ExportPairs == UNION {{<<F, n>> : n \in Range(exports[F])} : F \in Merged}

\* C1: every readable file the builder has gone through is merged with the
\* value of the parse attempt as its flag, and its exports and imports are
\* exactly what one extractor alone yields from empty buffers: the tree walk
\* when the parse succeeded, the regex fallback when it failed.
C1_OneExtractorPerFile ==
  \A f \in Processed \ unreadable :
    /\ f \in DOMAIN exports /\ f \in DOMAIN imports /\ f \in DOMAIN parsed
    /\ parsed[f] = AcornParses(source[f])
    /\ LET only == IF parsed[f]
                   THEN walkSimple(f, source[f], EmptyBuffer)
                   ELSE extractExportsAndImportsViaRegex(source[f], f, EmptyBuffer)
       IN exports[f] = only.fileExports /\ imports[f] = only.fileImports

\* A file merged from the fallback with records, beside one merged from the walk.
C1_Witness ==
  /\ \E f \in DOMAIN parsed : ~parsed[f] /\ imports[f] # <<>>
  /\ \E g \in DOMAIN parsed : parsed[g] /\ exports[g] # <<>>

ExpectedUnused ==
  {p \in ExportPairs :
     /\ NonWildcard(p[2])
     /\ ~isEntryPoint(p[1], projectPath)
     /\ ~Consumed(p[1], p[2])}

\* C2: once the unused-export detector has run, its findings are exactly one
\* per (file, export name) such that the name is a non-wildcard export of the
\* file, the file is no entry point, and no import record targets the file
\* with that name or with "*".
C2_UnusedExactly ==
  DetectorsRan =>
    /\ Reported = {FindingOf(p[1], p[2]) : p \in ExpectedUnused}
    /\ Len(UnusedFindings) = Cardinality(ExpectedUnused)

\* A reported export of a file that is imported, but under another name.
C2_Witness ==
  /\ pc = "done"
  /\ \E p \in ExpectedUnused : Imported(p[1])

ReExports(B) ==
  {st \in Range(source[B]) : st.form = "exportList" /\ st.src # <<>>}

\* C3: for every named re-export `export { x as y } from S` of a merged file
\* B, on either extraction path, y is in B's export set, B has an import
\* record of x from the file S resolves to, and x of that file is not
\* reported unused.
C3_ReExportConsumes ==
  \A B \in Merged : \A st \in ReExports(B) : \A k \in 1..Len(st.specs) :
    LET origin == resolveImportPath(B, st.src) IN
    /\ st.specs[k].alias \in Range(exports[B])
    /\ ImportRecord(st.specs[k].name, origin) \in Range(imports[B])
    /\ DetectorsRan => FindingOf(origin, st.specs[k].name) \notin Reported

\* A re-export extracted by the fallback whose origin exports the name.
C3_Witness ==
  /\ pc = "done"
  /\ \E B \in Merged : \E st \in ReExports(B) :
       /\ ~parsed[B]
       /\ resolveImportPath(B, st.src) \in Merged
       /\ st.specs[1].name \in Range(exports[resolveImportPath(B, st.src)])
       /\ st.specs[1].name # st.specs[1].alias

WildcardReExports(B) == {st \in Range(source[B]) : st.form = "exportAll"}

\* C4: for every `export * from S` of a merged file B, B has a "*" import
\* record of the file S resolves to, no export of that file is reported
\* unused, and the wildcard entry of B is not reported.
C4_WildcardConsumesAll ==
  \A B \in Merged : \A st \in WildcardReExports(B) :
    LET origin == resolveImportPath(B, st.src) IN
    /\ WildcardEntry(st.src) \in Range(exports[B])
    /\ ImportRecord(<<"*">>, origin) \in Range(imports[B])
    /\ DetectorsRan =>
         /\ \A i \in 1..Len(UnusedFindings) :
              UnusedFindings[i].file # relative(projectPath, origin)
         /\ FindingOf(B, WildcardEntry(st.src)) \notin Reported

\* A wildcard re-export of a file with an export nothing else imports.
C4_Witness ==
  /\ pc = "done"
  /\ \E B \in Merged : \E st \in WildcardReExports(B) :
       LET origin == resolveImportPath(B, st.src) IN
       /\ origin \in Merged
       /\ origin # B
       /\ ~isEntryPoint(origin, projectPath)
       /\ \E n \in Range(exports[origin]) :
            /\ NonWildcard(n)
            /\ \A g \in DOMAIN imports : \A i \in 1..Len(imports[g]) :
                 imports[g][i].sourceFile = origin => imports[g][i].importedName = <<"*">>

LocalEdges ==
  {e \in (DOMAIN imports) \X Range(files) :
     \E i \in 1..Len(imports[e[1]]) : imports[e[1]][i].sourceFile = e[2]}

\* The directed simple cycles of the local graph, as member sequences.
SimpleCycles ==
  {c \in UNION {[1..k -> Range(files)] : k \in 1..Len(files)} :
     /\ IsInjective(c)
     /\ \A k \in 1..Len(c) : <<c[k], c[(k % Len(c)) + 1]>> \in LocalEdges}

Members(finding) == Range(finding.cycle)

RelSet(S) == {relative(projectPath, f) : f \in S}

\* C6: no two circular-dependency findings have the same set of member files;
\* and two files that import each other and lie on no other cycle yield
\* exactly one finding, naming exactly the two.
C6_CyclesReportedOnce ==
  /\ \A i, j \in 1..Len(CycleFindings) :
       Members(CycleFindings[i]) = Members(CycleFindings[j]) => i = j
  /\ pc = "done" =>
       \A x, y \in Range(files) :
         (/\ x # y
          /\ <<x, y>> \in LocalEdges /\ <<y, x>> \in LocalEdges
          /\ \A c \in SimpleCycles :
               (x \in Range(c) \/ y \in Range(c)) => Range(c) = {x, y})
         => Cardinality({i \in 1..Len(CycleFindings) :
                           Members(CycleFindings[i]) \cap RelSet({x, y}) # {}}) = 1
            /\ \E i \in 1..Len(CycleFindings) :
                 Members(CycleFindings[i]) = RelSet({x, y})

\* Two files importing each other, the second of them earlier in the list,
\* beside a further cycle through the third file.
C6_Witness ==
  /\ pc = "done"
  /\ \E x, y \in Range(files) :
       /\ x # y
       /\ <<x, y>> \in LocalEdges /\ <<y, x>> \in LocalEdges
       /\ \A c \in SimpleCycles :
            (x \in Range(c) \/ y \in Range(c)) => Range(c) = {x, y}
       /\ indexOf(files, y) < indexOf(files, x)
       /\ Len(CycleFindings) = 2

\* C7: a circular-dependency finding of exactly two member files has
\* severity "high", one of three or more has severity "critical".
C7_CycleSeverity ==
  \A i \in 1..Len(CycleFindings) :
    /\ Len(CycleFindings[i].cycle) = 2 => CycleFindings[i].severity = "high"
    /\ Len(CycleFindings[i].cycle) >= 3 => CycleFindings[i].severity = "critical"

\* A run reporting a cycle of two files and a cycle of three.
C7_Witness ==
  /\ \E i \in 1..Len(CycleFindings) : Len(CycleFindings[i].cycle) = 2
  /\ \E i \in 1..Len(CycleFindings) : Len(CycleFindings[i].cycle) = 3

\* The records among `records` that target file u.
RecordsTo(records, u) == {r \in Range(records) : r.sourceFile = u}

\* C8: an unreadable file has no entry in either map; the run stays on its
\* normal path; once the builder has passed a readable file of the list, or
\* has returned, that file is merged with its full records, those targeting
\* the unreadable file included; and no unused-export finding names the
\* unreadable file.
C8_ReadFailureSkipsFile ==
  /\ \A u \in unreadable : u \notin DOMAIN exports /\ u \notin DOMAIN imports
  /\ pc \in {"build", "unused", "cycles", "done"}
  /\ \A g \in Range(files) \ unreadable :
       (g \in Processed \/ pc # "build") =>
         LET full == ExtractFile(g, source[g]).buf IN
         /\ g \in DOMAIN exports /\ g \in DOMAIN imports
         /\ exports[g] = full.fileExports
         /\ imports[g] = full.fileImports
         /\ \A u \in unreadable :
              RecordsTo(full.fileImports, u) \subseteq Range(imports[g])
  /\ pc = "done" =>
       \A u \in unreadable : \A i \in 1..Len(UnusedFindings) :
         UnusedFindings[i].file # relative(projectPath, u)

\* A finished run whose first file could not be read while a later file,
\* merged, imports from it.
C8_Witness ==
  /\ pc = "done"
  /\ files[1] \in unreadable
  /\ \E g \in Merged : \E i \in 1..Len(imports[g]) : imports[g][i].sourceFile = files[1]

\* C9: a detector runs only once the builder's loop has gone through the whole
\* list, and no step taken after the builder has returned changes the
\* exports map or the imports map.
C9_DetectorsAfterBuild ==
  [][ /\ (pc' # "build" => idx' > Len(files'))
      /\ (pc # "build" => exports' = exports /\ imports' = imports) ]_vars

\* Both detectors have run over a graph with entries, and reported.
C9_Witness ==
  /\ pc = "done"
  /\ Cardinality(Merged) = Len(files)
  /\ \E f \in Merged : imports[f] # <<>>
  /\ issues # <<>>

\* The two results name the same regular file of the snapshot.
SameFileOnDisk(p, q) ==
  /\ p \in DOMAIN fs /\ q \in DOMAIN fs
  /\ fs[p].kind = "file"
  /\ fs[p].ino = fs[q].ino

\* C10: against one snapshot the same (importing file, specifier) pair gets
\* the same result, and two relative specifiers that resolve to the same file
\* on disk get the identical node key.
C10_SameFileSameKey ==
  query # <<>> =>
    /\ query[1] = query[2] => answer[1] = answer[2]
    /\ (/\ StartsWithDot(query[1][2]) /\ StartsWithDot(query[2][2])
        /\ SameFileOnDisk(answer[1], answer[2]))
       => answer[1] = answer[2]

-----------------------------------------------------------------------------
(* Projects whose statements name their source without a leading dot       *)

\* Specifiers that do not start with "." : a package name and the absolute
\* paths of two project files.
NoDotSpecifiers == {Bare, FileA, FileB}

NoDotCatalog ==
  { Stmt("exportDecl", <<Name(foo)>>, <<>>),
    Stmt("exportDefault", <<>>, <<>>),
    Stmt("importNamed", <<Name(foo)>>, ToA) }
  \cup {Stmt("importNamed", <<Name(foo)>>, src) : src \in NoDotSpecifiers}

InitNoDot ==
  /\ fs = ProjectFs
  /\ files = <<FileA, FileB, FileIndex>>
  /\ unreadable = {}
  /\ \E la \in 0..MaxStmts : \E lb \in 0..(MaxStmts - la) : \E li \in 0..(MaxStmts - la - lb) :
       \E sa \in [1..la -> NoDotCatalog] : \E sb \in [1..lb -> NoDotCatalog] :
         \E si \in [1..li -> NoDotCatalog] :
           source = (FileA :> sa) @@ (FileB :> sb) @@ (FileIndex :> si)
  /\ StartAnalysis

SpecNoDot == InitNoDot /\ [][Next]_vars

\* The names a statement with a source consumes from it.
StmtNames(st) ==
  CASE st.form \in {"importNamed", "exportList"} ->
         {st.specs[k].name : k \in 1..Len(st.specs)}
    [] st.form = "importDefault" -> {<<"default">>}
    [] st.form = "importMixed" ->
         {<<"default">>} \cup {st.specs[k].name : k \in 1..Len(st.specs)}
    [] st.form \in {"importNamespace", "exportAll"} -> {<<"*">>}
    [] OTHER -> {}

\* The statements of g whose specifier starts with "." and reaches F.
RelativeTo(g, F) ==
  {st \in Range(source[g]) :
     st.src # <<>> /\ StartsWithDot(st.src) /\ resolveImportPath(g, st.src) = F}

RelativelyConsumed(F, n) ==
  \E g \in Merged : \E st \in RelativeTo(g, F) : StmtNames(st) \cap {n, <<"*">>} # {}

\* C11: a statement whose specifier does not start with "." is external: a
\* non-wildcard export of a file that is no entry point is reported unless a
\* statement with a relative specifier consumes it, and every edge of a
\* reported cycle comes from a statement with a relative specifier.
C11_NoDotIsExternal ==
  pc = "done" =>
    /\ \A p \in ExportPairs :
         (NonWildcard(p[2]) /\ ~isEntryPoint(p[1], projectPath)
            /\ ~RelativelyConsumed(p[1], p[2]))
         => FindingOf(p[1], p[2]) \in Reported
    /\ \A i \in 1..Len(cycles) : \A k \in 1..Len(cycles[i]) :
         RelativeTo(cycles[i][k], cycles[i][(k % Len(cycles[i])) + 1]) # {}

-----------------------------------------------------------------------------
(* stripLiteralsAndComments (src/unnamed/part_000, lines 10-114).          *)
(* A text is a sequence of characters; `i` is the 1-based scan position,   *)
(* `out` the pieces pushed so far, one element per character.              *)

Blank == " "

Newline == "\n"

Backslash == "\\"

\* The backtick character.
Backtick == "backtick"

\* source[i], undefined beyond the end of the text.
CharAt(text, i) == IF i >= 1 /\ i <= Len(text) THEN text[i] ELSE "undefined"

\* The ternary with its branches swapped.
MaskedSwapped(ch) == IF ch = Newline THEN Blank ELSE Newline

\* source[i] === "\n" ? "\n" : " "
Masked(ch) == IF ch = Newline THEN Newline ELSE Blank

Scanned(i, out) == [i |-> i, out |-> out]

\* Lines 23-26: the body of a // comment, up to the newline.
RECURSIVE SingleLineComment(_, _, _)
SingleLineComment(text, i, out) ==
  IF i <= Len(text) /\ text[i] # Newline
  THEN SingleLineComment(text, i + 1, Append(out, Blank))
  ELSE Scanned(i, out)

\* Lines 34-42: the body of a block comment, up to and including */.
RECURSIVE MultiLineComment(_, _, _)
MultiLineComment(text, i, out) ==
  IF i > Len(text) THEN Scanned(i, out)
  ELSE IF text[i] = "*" /\ CharAt(text, i + 1) = "/"
  THEN Scanned(i + 2, out \o <<Blank, Blank>>)
  ELSE MultiLineComment(text, i + 1, Append(out, Masked(text[i])))

\* Lines 51-76: the body of a template literal, up to the closing backtick.
RECURSIVE TemplateLiteral(_, _, _, _)
TemplateLiteral(text, i, depth, out) ==
  IF i > Len(text) THEN Scanned(i, out)
  ELSE IF text[i] = Backslash /\ i + 1 <= Len(text)
  THEN TemplateLiteral(text, i + 2, depth, out \o <<Blank, Blank>>)
  ELSE IF text[i] = "$" /\ CharAt(text, i + 1) = "{"
  THEN TemplateLiteral(text, i + 2, depth + 1, out \o <<Blank, Blank>>)
  ELSE IF text[i] = "}" /\ depth > 0
  THEN TemplateLiteral(text, i + 1, depth - 1, Append(out, Blank))
  ELSE IF text[i] = Backtick /\ depth = 0
  THEN Scanned(i + 1, Append(out, Blank))
  ELSE TemplateLiteral(text, i + 1, depth, Append(out, Masked(text[i])))

\* The string loop with the escape taken even at the end of the text.
RECURSIVE StringLiteralUnbounded(_, _, _, _)
StringLiteralUnbounded(text, i, quote, out) ==
  IF i > Len(text) THEN Scanned(i, out)
  ELSE IF text[i] = Backslash
  THEN StringLiteralUnbounded(text, i + 2, quote, out \o <<Blank, Blank>>)
  ELSE IF text[i] = quote THEN Scanned(i + 1, Append(out, Blank))
  ELSE IF text[i] = Newline THEN Scanned(i + 1, Append(out, Newline))
  ELSE StringLiteralUnbounded(text, i + 1, quote, Append(out, Blank))

\* The string loop without the escape test: a backslash is an ordinary character.
RECURSIVE StringLiteralNoEscape(_, _, _, _)
StringLiteralNoEscape(text, i, quote, out) ==
  IF i > Len(text) THEN Scanned(i, out)
  ELSE IF text[i] = quote THEN Scanned(i + 1, Append(out, Blank))
  ELSE IF text[i] = Newline THEN Scanned(i + 1, Append(out, Newline))
  ELSE StringLiteralNoEscape(text, i + 1, quote, Append(out, Blank))

\* Lines 85-104: the body of a ' or " string, up to the closing quote or the
\* newline that leaves it unterminated.
RECURSIVE StringLiteral(_, _, _, _)
StringLiteral(text, i, quote, out) ==
  IF i > Len(text) THEN Scanned(i, out)
  ELSE IF text[i] = Backslash /\ i + 1 <= Len(text)
  THEN StringLiteral(text, i + 2, quote, out \o <<Blank, Blank>>)
  ELSE IF text[i] = quote THEN Scanned(i + 1, Append(out, Blank))
  ELSE IF text[i] = Newline THEN Scanned(i + 1, Append(out, Newline))
  ELSE StringLiteral(text, i + 1, quote, Append(out, Blank))

\* The while loop of lines 15-111.
RECURSIVE Scan(_, _, _)
Scan(text, i, out) ==
  IF i > Len(text) THEN out
  ELSE LET ch == text[i]
           next == CharAt(text, i + 1)
       IN IF ch = "/" /\ next = "/"
          THEN LET r == SingleLineComment(text, i + 2, out \o <<Blank, Blank>>)
               IN Scan(text, r.i, r.out)
          ELSE IF ch = "/" /\ next = "*"
          THEN LET r == MultiLineComment(text, i + 2, out \o <<Blank, Blank>>)
               IN Scan(text, r.i, r.out)
          ELSE IF ch = Backtick
          THEN LET r == TemplateLiteral(text, i + 1, 0, Append(out, Blank))
               IN Scan(text, r.i, r.out)
          ELSE IF ch = "'" \/ ch = "\""
          THEN LET r == StringLiteral(text, i + 1, ch, Append(out, Blank))
               IN Scan(text, r.i, r.out)
          ELSE Scan(text, i + 1, Append(out, ch))

\* out.join("")
stripLiteralsAndComments(text) == Scan(text, 1, <<>>)

\* The characters the function tells apart, and "x" for every other one.
StripChars == {"/", "*", Backtick, "'", "\"", Backslash, "$", "{", "}", Newline, "x"}

\* The longest text.
MaxLen == 4

InitStrip ==
  /\ fs = ProjectFs
  /\ source = <<>>
  /\ unreadable = {}
  /\ files = <<>>
  /\ projectPath = Root
  /\ pc = "strip"
  /\ idx = 1
  /\ exports = <<>>
  /\ imports = <<>>
  /\ parsed = <<>>
  /\ unusedExports = <<>>
  /\ cycles = <<>>
  /\ issues = <<>>
  /\ query \in UNION {[1..n -> StripChars] : n \in 0..MaxLen}
  /\ answer = <<>>

\* One call: query is the text, answer the normalized text.
Strip ==
  /\ pc = "strip"
  /\ answer' = stripLiteralsAndComments(query)
  /\ pc' = "stripped"
  /\ UNCHANGED <<fs, source, unreadable, files, projectPath, idx, exports, imports,
                 parsed, unusedExports, cycles, issues, query>>

NextStrip == Strip

SpecStrip == InitStrip /\ [][NextStrip]_vars

\* C14: the normalized text has exactly the length of the input.
C14_SameLength == pc = "stripped" => Len(answer) = Len(query)

\* A text that ends on a backslash inside a string that was never closed.
C14_Witness ==
  /\ pc = "stripped"
  /\ Len(query) >= 3
  /\ query[1] \in {"'", "\""}
  /\ Last(query) = Backslash
  /\ \A k \in 2..Len(query) : query[k] \notin {query[1], Newline}
  /\ query[Len(query) - 1] # Backslash

\* C15: wherever the input has a newline the normalized text has one.
C15_NewlinesKept ==
  pc = "stripped" =>
    \A k \in 1..Len(query) : query[k] = Newline => CharAt(answer, k) = Newline

\* C20: in a template literal the characters of a ${ } hole are copied
\* unchanged, while the literal text outside the holes is masked.
C20_HolesAreCode ==
  (pc = "stripped" /\ Len(query) >= 2 /\ query[1] = Backtick) =>
    /\ query[2] = "x" => answer[2] = Blank
    /\ (Len(query) >= 4 /\ query[2] = "$" /\ query[3] = "{" /\ query[4] = "x")
         => answer[4] = query[4]

-----------------------------------------------------------------------------
(* Resolver candidates: every combination of the names a specifier for     *)
(* /p/a can reach                                                          *)

\* The regular files next to the literal path, each present or not.
SiblingFiles ==
  { DirA \o <<".ts">>, DirA \o <<".tsx">>, DirA \o <<".js">>, DirA \o <<".jsx">>,
    DirA \o <<".js", ".ts">> }

\* The index files of the directory /p/a, each present or not.
IndexFiles == {DirA \o <<"/", "index", ".tsx">>, DirA \o <<"/", "index", ".js">>}

\* Every name of the two sets, to number the files.
CandidatePaths ==
  << DirA \o <<".ts">>, DirA \o <<".tsx">>, DirA \o <<".js">>, DirA \o <<".jsx">>,
     DirA \o <<".js", ".ts">>, DirA \o <<"/", "index", ".tsx">>,
     DirA \o <<"/", "index", ".js">> >>

FilesAt(paths) ==
  [q \in paths |-> File(10 + (CHOOSE k \in 1..Len(CandidatePaths) : CandidatePaths[k] = q))]

\* /p/a itself: absent, a regular file, or a directory with some index files.
LiteralStates ==
  {EmptyFs, (DirA :> File(3))}
  \cup {(DirA :> Dir(8)) @@ FilesAt(ix) : ix \in SUBSET IndexFiles}

CandidateSnapshots ==
  {BaseFs @@ lit @@ FilesAt(sib) : lit \in LiteralStates, sib \in SUBSET SiblingFiles}

CandidateSpecifiers == {ToA, <<".", "/", "a", ".js">>, <<".", "/", "a", ".jsx">>}

InitCandidates ==
  /\ fs \in CandidateSnapshots
  /\ files = <<>>
  /\ source = <<>>
  /\ unreadable = {}
  /\ projectPath = Root
  /\ pc = "resolve"
  /\ idx = 1
  /\ exports = <<>>
  /\ imports = <<>>
  /\ parsed = <<>>
  /\ unusedExports = <<>>
  /\ cycles = <<>>
  /\ issues = <<>>
  /\ query = <<>>
  /\ answer = <<>>

\* One call of resolveImportPath from /p/m.ts.
ResolveOne ==
  /\ pc = "resolve"
  /\ \E importPath \in CandidateSpecifiers :
       LET fromFile == <<"/", "p", "/", "m", ".ts">> IN
       /\ query' = <<fromFile, importPath>>
       /\ answer' = resolveImportPath(fromFile, importPath)
  /\ pc' = "resolved"
  /\ UNCHANGED <<fs, source, unreadable, files, projectPath, idx, exports, imports,
                 parsed, unusedExports, cycles, issues>>

NextCandidates == ResolveOne

SpecCandidates == InitCandidates /\ [][NextCandidates]_vars

\* The literal path of the request: the specifier against the importer's directory.
Literal == resolve(dirname(query[1]), query[2])

PriorityList == <<".ts", ".tsx", ".js", ".jsx", ".mjs", ".mts">>

Appended(path) == [k \in 1..Len(PriorityList) |-> path \o <<PriorityList[k]>>]

\* The source names of a compiled-output name.
SourcesOf(path) ==
  IF Last(path) = ".js"
  THEN LET base == Front(path) IN <<base \o <<".ts">>, base \o <<".tsx">>, base \o <<".js">>>>
  ELSE IF Last(path) = ".jsx"
  THEN LET base == Front(path) IN <<base \o <<".tsx">>, base \o <<".jsx">>>>
  ELSE <<>>

Existing(cands) == SelectSeq(cands, LAMBDA c : c \in DOMAIN fs)

\* C17: when the literal path is no directory the result is the first
\* existing name of the list: the literal path, then the literal path with
\* each extension of the priority list, then the source names of a
\* compiled-output name.
C17_FirstExistingCandidate ==
  (pc = "resolved" /\ ~(Literal \in DOMAIN fs /\ fs[Literal].kind = "dir")) =>
    LET found == Existing(<<Literal>> \o Appended(Literal) \o SourcesOf(Literal))
    IN found # <<>> => answer = found[1]

\* ./a.js with no a.js on disk while a.js.ts and a.ts both exist.
C17_Witness ==
  /\ pc = "resolved"
  /\ query[2] = <<".", "/", "a", ".js">>
  /\ Literal \notin DOMAIN fs
  /\ Literal \o <<".ts">> \in DOMAIN fs
  /\ Front(Literal) \o <<".ts">> \in DOMAIN fs
  /\ answer = Literal \o <<".ts">>

IndexNames(dir) ==
  [k \in 1..Len(PriorityList) |-> dir \o <<"/", "index", PriorityList[k]>>]

\* C18: when the literal path is a directory the result is its first existing
\* index file in priority order, and the directory itself when it has none,
\* whatever files lie next to the directory.
C18_DirectoryIndex ==
  (pc = "resolved" /\ Literal \in DOMAIN fs /\ fs[Literal].kind = "dir") =>
    LET found == Existing(IndexNames(Literal))
    IN answer = IF found # <<>> THEN found[1] ELSE Literal

\* A directory without index files beside a file named like it plus .ts.
C18_Witness ==
  /\ pc = "resolved"
  /\ Literal \in DOMAIN fs /\ fs[Literal].kind = "dir"
  /\ Existing(IndexNames(Literal)) = <<>>
  /\ Literal \o <<".ts">> \in DOMAIN fs
  /\ answer = Literal

-----------------------------------------------------------------------------
(* Reported cycles against the import graph                                *)

\* C19: every cycle findCircularDependencies returns has its members in the
\* input list, no member twice, and an import record of each member that
\* targets the next one, the last member's targeting the first.
C19_CyclesAreGenuine ==
  \A i \in 1..Len(cycles) :
    LET c == cycles[i] IN
    /\ c # <<>>
    /\ Range(c) \subseteq Range(files)
    /\ IsInjective(c)
    /\ \A k \in 1..Len(c) : <<c[k], c[(k % Len(c)) + 1]>> \in LocalEdges

\* A cycle of two files reported for a list that leaves out a file one of the
\* two imports.
C19_Witness ==
  /\ pc = "done"
  /\ cycles # <<>>
  /\ Len(cycles[1]) = 2
  /\ \E g \in Range(cycles[1]) : \E k \in 1..Len(imports[g]) :
       /\ imports[g][k].sourceFile \in ProjectFiles
       /\ imports[g][k].sourceFile \notin Range(files)

-----------------------------------------------------------------------------
(* The fallback on a text with comments and strings.  A run of code        *)
(* characters that one of the patterns matches is one element of the text; *)
(* the other elements are single characters.                               *)

ExportDefaultRun == "export default foo"

ExportDeclRun == "export const foo = 1"

ImportNamedRun == "import { foo } from './a'"

PatternRuns == {ExportDefaultRun, ExportDeclRun, ImportNamedRun}

\* The statement a run is.
RunStmt(run) ==
  CASE run = ExportDefaultRun -> Stmt("exportDefault", <<>>, <<>>)
    [] run = ExportDeclRun -> Stmt("exportDecl", <<Name(foo)>>, <<>>)
    [] run = ImportNamedRun -> Stmt("importNamed", <<Name(foo)>>, ToA)

\* The patterns applied to strippedContent; the others are applied to content.
StrippedPasses == {"exportDefault", "exportDecl", "exportType"}

\* Every offset counts as code.
inCodeAlways(strippedContent, index) == TRUE

\* inCode(index), lines 505-508, for the 1-based offset `index`.
inCode(strippedContent, index) == strippedContent[index] # Blank

\* The pattern of the pass matches at offset k of the text it is applied to,
\* and the match passes the pass's inCode test (line 513 has none).
MatchAt(pass, content, strippedContent, k) ==
  LET searched == IF pass \in StrippedPasses THEN strippedContent ELSE content IN
  /\ searched[k] \in PatternRuns
  /\ RunStmt(searched[k]).form = pass
  /\ pass # "exportDefault" => inCode(strippedContent, k)

\* content.matchAll(pattern) with the inCode test: the offsets of the
\* accepted matches, in text order.
MatchesOf(pass, content, strippedContent) ==
  SelectSeq([k \in 1..Len(content) |-> k],
            LAMBDA k : MatchAt(pass, content, strippedContent, k))

\* One matchAll loop over the accepted matches.
RECURSIVE TextPass(_, _, _, _, _)
TextPass(pass, content, matches, file, buf) ==
  IF matches = <<>> THEN buf
  ELSE TextPass(pass, content, Tail(matches), file,
                RegexMatch(pass, file, RunStmt(content[Head(matches)]), buf))

RECURSIVE TextPassesFrom(_, _, _, _, _)
TextPassesFrom(n, content, strippedContent, file, buf) ==
  IF n > Len(RegexPasses) THEN buf
  ELSE TextPassesFrom(n + 1, content, strippedContent, file,
                      TextPass(RegexPasses[n], content,
                               MatchesOf(RegexPasses[n], content, strippedContent),
                               file, buf))

\* extractExportsAndImportsViaRegex(content, strippedContent, file, ...) on a text.
extractViaRegexOnText(content, strippedContent, file, buf) ==
  TextPassesFrom(1, content, strippedContent, file, buf)

\* Lines 475-478: the fallback as buildExportGraph calls it.
FallbackOnText(content, file) ==
  extractViaRegexOnText(content, stripLiteralsAndComments(content), file, EmptyBuffer)

\* The ways a line holds a run: as code, in a // comment, in a closed or an
\* open block comment, in a closed or an unterminated string, in an open
\* template literal.
LinesOf(run) ==
  { <<run>>, <<"/", "/", run>>, <<"/", "*", run, "*", "/">>, <<"/", "*", run>>,
    <<"'", run, "'">>, <<"\"", run>>, <<Backtick, run>> }

TextLines == {<<>>} \cup UNION {LinesOf(run) : run \in PatternRuns}

\* The most lines a text holds.
MaxLines == 2

RECURSIVE JoinLines(_)
JoinLines(lines) ==
  IF lines = <<>> THEN <<>>
  ELSE IF Len(lines) = 1 THEN lines[1]
  ELSE lines[1] \o <<Newline>> \o JoinLines(Tail(lines))

InitFallback ==
  /\ fs = ProjectFs
  /\ source = <<>>
  /\ unreadable = {}
  /\ files = <<FileB>>
  /\ projectPath = Root
  /\ pc = "fallback"
  /\ idx = 1
  /\ exports = <<>>
  /\ imports = <<>>
  /\ parsed = <<>>
  /\ unusedExports = <<>>
  /\ cycles = <<>>
  /\ issues = <<>>
  /\ \E n \in 1..MaxLines : \E lines \in [1..n -> TextLines] : query = JoinLines(lines)
  /\ answer = <<>>

\* The fallback run on the text of files[1]: answer holds the two buffers.
Fallback ==
  /\ pc = "fallback"
  /\ answer' = FallbackOnText(query, files[1])
  /\ pc' = "extracted"
  /\ UNCHANGED <<fs, source, unreadable, files, projectPath, idx, exports, imports,
                 parsed, unusedExports, cycles, issues, query>>

NextFallback == Fallback

SpecFallback == InitFallback /\ [][NextFallback]_vars

\* The statements of the runs at the offsets the normalized text leaves unmasked.
UnmaskedStmts(text) ==
  LET normal == stripLiteralsAndComments(text)
      at == SelectSeq([k \in 1..Len(text) |-> k],
                      LAMBDA k : text[k] \in PatternRuns /\ normal[k] # Blank)
  IN [j \in 1..Len(at) |-> RunStmt(text[at[j]])]

\* A run alone on a line inside a comment or a string that ends with the line.
InertLines(run) ==
  {<<"/", "/", run>>, <<"/", "*", run, "*", "/">>, <<"'", run, "'">>, <<"\"", run>>}

\* C12: the records of the fallback are those of the matches whose first
\* character is unmasked in the normalized text; a pattern inside a comment or
\* a string yields no record, and with the same pattern as code on the next
\* line the records are those of that one occurrence.
C12_MaskedMatchesRejected ==
  pc = "extracted" =>
    /\ answer = extractExportsAndImportsViaRegex(UnmaskedStmts(query), files[1], EmptyBuffer)
    /\ \A run \in PatternRuns : \A line \in InertLines(run) :
         /\ query = line => answer = EmptyBuffer
         /\ query = line \o <<Newline, run>> =>
              answer = RegexMatch(RunStmt(run).form, files[1], RunStmt(run), EmptyBuffer)

\* An import pattern in a // comment, and the same import as code on the next line.
C12_Witness ==
  /\ pc = "extracted"
  /\ query = <<"/", "/", ImportNamedRun, Newline, ImportNamedRun>>
  /\ Len(answer.fileImports) = 1

-----------------------------------------------------------------------------
(* Project analysis: analyzeProject (src/src/cli/commands.ts) and the      *)
(* analyze command (src/src/index.ts).  The state machine of               *)
(* analyzeUnusedExports above runs between the collection of the other     *)
(* analyzers' issues and the construction of the report.                   *)

\* A path-valued result that is null or undefined.
null == <<>>

PackageJsonPath(root) == join(root, <<"package.json">>)

\* package.json as parsed: its sideEffects field ("absent" when it has none),
\* the names of its dependencies and the words of its scripts.
PackageJson(sideEffects) == [sideEffects |-> sideEffects, deps |-> {}, scripts |-> {}]

configChecks ==
  << [files |-> <<"vite.config.ts", "vite.config.js", "vite.config.mts", "vite.config.mjs">>,
      bundler |-> "vite"],
     [files |-> <<"webpack.config.js", "webpack.config.ts", "webpack.config.mjs">>,
      bundler |-> "webpack"],
     [files |-> <<"rollup.config.js", "rollup.config.ts", "rollup.config.mjs">>,
      bundler |-> "rollup"],
     [files |-> <<"esbuild.config.js", "esbuild.config.ts", "esbuild.config.mjs">>,
      bundler |-> "esbuild"] >>

BundlerNames == <<"vite", "webpack", "rollup", "esbuild">>

\* The first bundler of `names` in the set `words`, "unknown" when there is none.
RECURSIVE FirstBundler(_, _)
FirstBundler(names, words) ==
  IF names = <<>> THEN "unknown"
  ELSE IF Head(names) \in words THEN Head(names)
  ELSE FirstBundler(Tail(names), words)

RECURSIVE ConfigBundler(_, _)
ConfigBundler(checks, root) ==
  IF checks = <<>> THEN "unknown"
  ELSE IF \E i \in 1..Len(Head(checks).files) :
            existsSync(join(root, <<Head(checks).files[i]>>))
       THEN Head(checks).bundler
  ELSE ConfigBundler(Tail(checks), root)

detectBundler(root) ==
  LET byConfig == ConfigBundler(configChecks, root)
      packageJsonPath == PackageJsonPath(root)
  IN IF byConfig # "unknown" THEN byConfig
     ELSE IF existsSync(packageJsonPath)
          THEN LET byDeps == FirstBundler(BundlerNames, source[packageJsonPath].deps)
               IN IF byDeps # "unknown" THEN byDeps
                  ELSE FirstBundler(BundlerNames, source[packageJsonPath].scripts)
     ELSE "unknown"

statsLocations ==
  [vite |-> <<"dist/.vite/stats.json", "dist/stats.json", ".vite/stats.json">>,
   webpack |-> <<"dist/stats.json", "build/stats.json", "stats.json">>,
   rollup |-> <<"dist/stats.json", "stats.json">>,
   esbuild |-> <<"dist/meta.json", "meta.json", "metafile.json">>,
   unknown |-> <<>>]

RECURSIVE FirstLocation(_, _)
FirstLocation(locations, root) ==
  IF locations = <<>> THEN null
  ELSE IF existsSync(join(root, <<Head(locations)>>)) THEN join(root, <<Head(locations)>>)
  ELSE FirstLocation(Tail(locations), root)

getDefaultStatsPath(root, bundler) == FirstLocation(statsLocations[bundler], root)

\* The extensions of the patterns "**/*.js", ..., "**/*.mts".
getBundlerFilePatterns(bundler) == {".js", ".jsx", ".ts", ".tsx", ".mjs", ".mts"}

\* The directories and the name parts of the ignore patterns.
excludePatterns ==
  {"node_modules", "dist", "build", ".next", "coverage", "__tests__", ".test", ".spec"}

RECURSIVE InPathOrder(_)
InPathOrder(paths) ==
  IF paths = {} THEN <<>>
  ELSE LET first == CHOOSE p \in paths : \A q \in paths \ {p} : StrLess(p, q)
       IN <<first>> \o InPathOrder(paths \ {first})

\* glob(filePatterns, {cwd, ignore, absolute: true}): the files under cwd with
\* one of the extensions and outside the ignored names, as absolute paths.  A
\* cwd that does not exist has no files under it: the result is empty.
glob(filePatterns, cwd) ==
  InPathOrder({p \in DOMAIN fs :
                 /\ fs[p].kind = "file"
                 /\ StartsWith(p, cwd \o <<"/">>)
                 /\ Last(p) \in filePatterns
                 /\ Range(p) \cap excludePatterns = {}})

\* path.basename(file), as the tokens of the last segment.
basename(file) == Last(NormalizeSegs(Split(file), <<>>))

estimateWildcardImpact(src) ==
  IF "lodash" \in Range(src) THEN 25000
  ELSE IF "icons" \in Range(src) \/ "Icon" \in Range(src) THEN 50000
  ELSE IF "utils" \in Range(src) \/ "helpers" \in Range(src) THEN 5000
  ELSE IF "components" \in Range(src) THEN 10000
  ELSE 3000

\* The counts of the syntax tree and those of the two patterns of the catch
\* block agree on the statements of the model.
analyzeBarrelContent(content, filePath, root) ==
  LET relPath == relative(root, filePath)
      wildcardSources == SelectSeq(content, LAMBDA st : st.form = "exportAll")
      reexports == SelectSeq(content, LAMBDA st :
                     st.form = "exportAll" \/ (st.form = "exportList" /\ st.src # <<>>))
      wildcardReexportCount == Len(wildcardSources)
      reexportCount == Len(reexports)
  IN [i \in 1..wildcardReexportCount |->
        Issue("wildcard-reexport",
              IF wildcardReexportCount > 3 THEN "critical" ELSE "high",
              relPath, <<"export * from ">> \o wildcardSources[i].src, <<>>,
              estimateWildcardImpact(wildcardSources[i].src))]
     \o (IF reexportCount > 5 /\ wildcardReexportCount = 0
         THEN <<Issue("barrel-file", "medium", relPath, <<"re-exports in barrel file">>,
                      <<>>, reexportCount * 500)>>
         ELSE <<>>)

\* Only files named index.<extension> are looked at.
BarrelOfFile(content, filePath, root) ==
  IF Len(basename(filePath)) = 2 /\ basename(filePath)[1] = "index"
       /\ basename(filePath)[2] \in {".js", ".ts", ".jsx", ".tsx", ".mjs", ".mts"}
  THEN analyzeBarrelContent(content, filePath, root)
  ELSE <<>>

\* The loop over the files; a file that cannot be read is skipped.
RECURSIVE analyzeBarrelFiles(_, _)
analyzeBarrelFiles(fileList, root) ==
  IF fileList = <<>> THEN <<>>
  ELSE (IF ReadFails(Head(fileList)) THEN <<>>
        ELSE BarrelOfFile(source[Head(fileList)], Head(fileList), root))
       \o analyzeBarrelFiles(Tail(fileList), root)

\* The objects of SIDE_EFFECT_PATTERNS, in the order of the array.
SIDE_EFFECT_PATTERNS ==
  <<"console", "window", "document", "globalThis", "global", "localStorage",
    "sessionStorage">>

SIDE_EFFECT_CALLS ==
  {"require", "fetch", "setTimeout", "setInterval", "addEventListener",
   "removeEventListener", "dispatchEvent", "alert", "confirm", "prompt"}

\* A call statement lists its callee: <<object, property>> for object.property(),
\* <<name>> for name().
calleeName(st) == Last(st.specs).name

\* The pattern loop: one issue per pattern that matches somewhere in the file.
\* The statements of the model are module-level, so isTopLevel holds of each.
PatternIssues(k, content, relPath) ==
  IF \E i \in 1..Len(content) :
       /\ content[i].form = "call"
       /\ Len(content[i].specs) = 2
       /\ content[i].specs[1].name = <<SIDE_EFFECT_PATTERNS[k]>>
  THEN <<Issue("side-effect", "medium", relPath, <<SIDE_EFFECT_PATTERNS[k]>>, <<>>, 500)>>
  ELSE <<>>

RECURSIVE PatternIssuesFrom(_, _, _)
PatternIssuesFrom(k, content, relPath) ==
  IF k > Len(SIDE_EFFECT_PATTERNS) THEN <<>>
  ELSE PatternIssues(k, content, relPath) \o PatternIssuesFrom(k + 1, content, relPath)

\* The ExpressionStatement visitor, run when acorn parses the file.
CallIssues(content, relPath) ==
  LET calls == SelectSeq(content, LAMBDA st :
                 st.form = "call" /\ calleeName(st)[1] \in SIDE_EFFECT_CALLS)
  IN [i \in 1..Len(calls) |->
        Issue("side-effect", "high", relPath, calleeName(calls[i]), <<>>, 1000)]

analyzeFileSideEffects(content, filePath, root) ==
  LET relPath == relative(root, filePath)
  IN PatternIssuesFrom(1, content, relPath)
     \o (IF AcornParses(content) THEN CallIssues(content, relPath) ELSE <<>>)

\* The loop over the files; a file that cannot be read is skipped.
RECURSIVE analyzeSideEffects(_, _)
analyzeSideEffects(fileList, root) ==
  IF fileList = <<>> THEN <<>>
  ELSE (IF ReadFails(Head(fileList)) THEN <<>>
        ELSE analyzeFileSideEffects(source[Head(fileList)], Head(fileList), root))
       \o analyzeSideEffects(Tail(fileList), root)

checkSideEffectsConfig(root) ==
  LET packageJsonPath == PackageJsonPath(root)
  IN IF ~existsSync(packageJsonPath) THEN <<>>
     ELSE IF source[packageJsonPath].sideEffects = "absent"
          THEN <<Issue("missing-sideeffects-config", "medium", <<"package.json">>,
                       <<"missing sideEffects field">>, <<>>, 5000)>>
     ELSE IF source[packageJsonPath].sideEffects = "true"
          THEN <<Issue("side-effect", "high", <<"package.json">>,
                       <<"sideEffects: true">>, <<>>, 10000)>>
     ELSE <<>>

NON_TREESHAKEABLE_LIBRARIES ==
  [lodash |-> 72000, moment |-> 67000, underscore |-> 17000, jquery |-> 87000]

LARGE_LIBRARIES_WITH_SUBPATHS ==
  ("@mui/material" :> 300000) @@ ("@mui/icons-material" :> 500000) @@ ("antd" :> 200000)
  @@ ("@ant-design/icons" :> 100000) @@ ("react-icons" :> 150000)
  @@ ("@chakra-ui/react" :> 100000) @@ ("rxjs" :> 50000)
  @@ ("@fortawesome/free-solid-svg-icons" :> 80000)

\* The specifier class [^'"./][^'"]* of the two import patterns.
IsPackageSpecifier(src) == src # <<>> /\ src[1] \notin DotTokens \cup {"/"}

\* The issues of one default (star = FALSE) or namespace (star = TRUE) import.
LibraryIssues(st, star, relPath) ==
  LET moduleName == st.src[1]
      known == Len(st.src) = 1 /\ moduleName \in DOMAIN NON_TREESHAKEABLE_LIBRARIES
      large == Len(st.src) = 1 /\ moduleName \in DOMAIN LARGE_LIBRARIES_WITH_SUBPATHS
  IN (IF known
      THEN <<Issue("commonjs-module", "critical", relPath, st.src, <<>>,
                   NON_TREESHAKEABLE_LIBRARIES[moduleName])>>
      ELSE <<>>)
     \o (IF large
         THEN <<Issue("barrel-file", "high", relPath, st.src, <<>>,
                      LARGE_LIBRARIES_WITH_SUBPATHS[moduleName])>>
         ELSE <<>>)
     \o (IF star /\ ~known /\ ~large
         THEN <<Issue("barrel-file", "medium", relPath, st.src, <<>>, 5000)>>
         ELSE <<>>)

RECURSIVE ImportIssues(_, _, _)
ImportIssues(content, star, relPath) ==
  IF content = <<>> THEN <<>>
  ELSE (IF Head(content).form = (IF star THEN "importNamespace" ELSE "importDefault")
           /\ IsPackageSpecifier(Head(content).src)
        THEN LibraryIssues(Head(content), star, relPath)
        ELSE <<>>)
       \o ImportIssues(Tail(content), star, relPath)

\* Default imports first, then namespace imports.  No statement of the model
\* is a dynamic import.
analyzeESMImports(content, relPath) ==
  ImportIssues(content, FALSE, relPath) \o ImportIssues(content, TRUE, relPath)

\* No statement of the model matches a CommonJS pattern: hasCJS is false and
\* only the ESM import analysis adds issues.
analyzeModuleType(content, filePath, root) ==
  IF EndsWith(filePath, <<".d", ".ts">>) THEN <<>>
  ELSE analyzeESMImports(content, relative(root, filePath))

\* The loop over the files; a file that cannot be read is skipped.
RECURSIVE analyzeModuleTypes(_, _)
analyzeModuleTypes(fileList, root) ==
  IF fileList = <<>> THEN <<>>
  ELSE (IF ReadFails(Head(fileList)) THEN <<>>
        ELSE analyzeModuleType(source[Head(fileList)], Head(fileList), root))
       \o analyzeModuleTypes(Tail(fileList), root)

\* The default case of the switch: the result for a bundler that is unknown.
analyzeBundleStats(statsFile, bundler) == <<>>

severityOrder == [critical |-> 0, high |-> 1, medium |-> 2, low |-> 3]

\* The comparator of the sort.
compareIssues(a, b) ==
  IF severityOrder[a.severity] # severityOrder[b.severity]
  THEN severityOrder[a.severity] - severityOrder[b.severity]
  ELSE b.estimatedImpact - a.estimatedImpact

\* x after the elements that do not come after it.
RECURSIVE InsertIssue(_, _)
InsertIssue(x, sorted) ==
  IF sorted = <<>> THEN <<x>>
  ELSE IF compareIssues(Head(sorted), x) <= 0
       THEN <<Head(sorted)>> \o InsertIssue(x, Tail(sorted))
  ELSE <<x>> \o sorted

\* Array.prototype.sort(compareIssues): a stable sort.
RECURSIVE sortIssues(_)
sortIssues(list) ==
  IF list = <<>> THEN <<>> ELSE InsertIssue(Last(list), sortIssues(Front(list)))

WithSeverity(list, severity) == SelectSeq(list, LAMBDA i : i.severity = severity)

RECURSIVE SumImpact(_)
SumImpact(list) ==
  IF list = <<>> THEN 0 ELSE Head(list).estimatedImpact + SumImpact(Tail(list))

\* issues.filter((issue) => issue.estimatedImpact >= threshold)
filterByThreshold(list, threshold) ==
  SelectSeq(list, LAMBDA i : i.estimatedImpact >= threshold)

Summary(filteredIssues, root, bundler, fileList) ==
  [projectPath |-> root,
   bundler |-> bundler,
   totalIssues |-> Len(filteredIssues),
   criticalCount |-> Len(WithSeverity(filteredIssues, "critical")),
   highCount |-> Len(WithSeverity(filteredIssues, "high")),
   mediumCount |-> Len(WithSeverity(filteredIssues, "medium")),
   lowCount |-> Len(WithSeverity(filteredIssues, "low")),
   estimatedSavings |-> SumImpact(filteredIssues),
   analyzedFiles |-> Len(fileList)]

\* JSON.stringify(report): the counts and the issues of the report.
JsonReport(report) ==
  [totalIssues |-> report.summary.totalIssues,
   criticalCount |-> report.summary.criticalCount,
   highCount |-> report.summary.highCount,
   mediumCount |-> report.summary.mediumCount,
   lowCount |-> report.summary.lowCount,
   issues |-> report.issues]

\* printTextReport: the counts of the summary block (a count of zero has no
\* line) and the issues listed under the severity headings.
printTextReport(report, config) ==
  [totalIssues |-> report.summary.totalIssues,
   criticalCount |-> report.summary.criticalCount,
   highCount |-> report.summary.highCount,
   mediumCount |-> report.summary.mediumCount,
   lowCount |-> report.summary.lowCount,
   issues |->
     IF report.summary.totalIssues = 0 THEN <<>>
     ELSE WithSeverity(report.issues, "critical")
          \o WithSeverity(report.issues, "high")
          \o (IF config.threshold = 0 THEN WithSeverity(report.issues, "medium") ELSE <<>>)
          \o (IF config.threshold = 0 THEN WithSeverity(report.issues, "low") ELSE <<>>)]

\* analyzeProject up to the call of analyzeUnusedExports (lines 33-78): the
\* file list and the issues of the first four analyzers.
CollectIssues ==
  /\ pc = "analyze"
  /\ LET bundler == detectBundler(projectPath)
         found == glob(getBundlerFilePatterns(bundler), projectPath)
     IN /\ files' = found
        /\ issues' = analyzeBarrelFiles(found, projectPath)
                     \o analyzeSideEffects(found, projectPath)
                     \o checkSideEffectsConfig(projectPath)
                     \o analyzeModuleTypes(found, projectPath)
  /\ pc' = "build"
  /\ UNCHANGED <<fs, source, unreadable, projectPath, idx, exports, imports, parsed,
                 unusedExports, cycles, query, answer>>

\* analyzeProject from the return of analyzeUnusedExports (lines 83-131): the
\* bundle stats, the threshold filter, the sort and the summary.  The issue
\* records of the model carry no suggestion, so reportIssues is filteredIssues.
BuildReport ==
  /\ pc = "done"
  /\ LET bundler == detectBundler(projectPath)
         statsFile == getDefaultStatsPath(projectPath, bundler)
         all == issues \o (IF statsFile # null /\ existsSync(statsFile)
                           THEN analyzeBundleStats(statsFile, bundler)
                           ELSE <<>>)
         filteredIssues == sortIssues(filterByThreshold(all, query.threshold))
     IN /\ issues' = all
        /\ answer' = [report |-> [summary |-> Summary(filteredIssues, projectPath,
                                                      bundler, files),
                                  issues |-> filteredIssues]]
  /\ pc' = "reported"
  /\ UNCHANGED <<fs, source, unreadable, files, projectPath, idx, exports, imports,
                 parsed, unusedExports, cycles, query>>

\* The analyze command after analyzeProject has returned (index.ts lines
\* 53-59).  No call of analyzeProject throws, so the catch block never runs.
PrintReport ==
  /\ pc = "reported"
  /\ answer' = [report |-> answer.report,
                failed |-> FALSE,
                stdout |-> IF query.outputFormat = "json"
                           THEN JsonReport(answer.report)
                           ELSE printTextReport(answer.report, query)]
  /\ pc' = "printed"
  /\ UNCHANGED <<fs, source, unreadable, files, projectPath, idx, exports, imports,
                 parsed, unusedExports, cycles, issues, query>>

\* The end of the command (index.ts lines 61-64): process.exit(1) when the
\* report counts a critical issue, the normal exit status otherwise.
Exit ==
  /\ pc = "printed"
  /\ answer' = [report |-> answer.report,
                failed |-> answer.failed,
                stdout |-> answer.stdout,
                exitCode |-> IF answer.report.summary.criticalCount > 0 THEN 1 ELSE 0]
  /\ pc' = "exited"
  /\ UNCHANGED <<fs, source, unreadable, files, projectPath, idx, exports, imports,
                 parsed, unusedExports, cycles, issues, query>>

NextReport == CollectIssues \/ Next \/ BuildReport \/ PrintReport \/ Exit

Lodash == <<"lodash">>

\* console.log(1)
ConsoleLog == Stmt("call", <<Name(<<"console">>), Name(<<"log">>)>>, <<>>)

ReportCatalog ==
  { Stmt("exportDecl", <<Name(foo)>>, <<>>),
    Stmt("importNamed", <<Name(foo)>>, ToA),
    Stmt("importNamed", <<Name(foo)>>, ToB),
    Stmt("importNamed", <<Name(foo)>>, ToIndex),
    Stmt("exportAll", <<>>, ToA),
    Stmt("importDefault", <<>>, Lodash),
    ConsoleLog }

\* A file of the report projects holds at most one statement.
ReportTexts == {<<>>} \cup {<<st>> : st \in ReportCatalog}

\* package.json without a sideEffects field and with sideEffects: true.
PackageJsons == {PackageJson("absent"), PackageJson("true")}

\* The values of --threshold: the default, the impact of an unused export and
\* one byte more.
Thresholds == {0, 500, 501}

\* The project directory does not exist.
NoProjectFs == <<"/">> :> Dir(1)

InitReport ==
  /\ projectPath = Root
  /\ unreadable = {}
  /\ \/ /\ fs = NoProjectFs
        /\ source = [f \in {} |-> <<>>]
     \/ \E sa \in ReportTexts : \E sb \in ReportTexts : \E si \in ReportTexts :
          LET text == (FileA :> sa) @@ (FileB :> sb) @@ (FileIndex :> si) IN
          \/ /\ fs = ProjectFs
             /\ source = text
          \/ \E pkg \in PackageJsons :
               /\ fs = ProjectFs @@ (PackageJsonPath(Root) :> File(6))
               /\ source = text @@ (PackageJsonPath(Root) :> pkg)
  /\ query \in [threshold : Thresholds, outputFormat : {"text", "json"}]
  /\ files = <<>>
  /\ pc = "analyze"
  /\ idx = 1
  /\ exports = <<>>
  /\ imports = <<>>
  /\ parsed = <<>>
  /\ unusedExports = <<>>
  /\ cycles = <<>>
  /\ issues = <<>>
  /\ answer = <<>>

SpecReport == InitReport /\ [][NextReport]_vars

\* Occurrences of x in list.
CountOf(list, x) == Len(SelectSeq(list, LAMBDA y : y = x))

SameIssues(shown, expected) ==
  /\ Len(shown) = Len(expected)
  /\ \A i \in 1..Len(expected) : CountOf(shown, expected[i]) = CountOf(expected, expected[i])

\* C13: when the project root does not exist, the command ends with the error
\* of the analysis and not with a report.
C13_MissingRootFails ==
  (pc = "exited" /\ ~existsSync(projectPath)) => answer.failed

\* C16: in either output format the issues shown are the collected issues
\* whose impact is at least the threshold, and the counts shown are the counts
\* of the issues shown.
C16_ThresholdDecidesReport ==
  pc = "exited" =>
    /\ SameIssues(answer.stdout.issues, filterByThreshold(issues, query.threshold))
    /\ answer.stdout.totalIssues = Len(answer.stdout.issues)
    /\ answer.stdout.criticalCount = Len(WithSeverity(answer.stdout.issues, "critical"))
    /\ answer.stdout.highCount = Len(WithSeverity(answer.stdout.issues, "high"))
    /\ answer.stdout.mediumCount = Len(WithSeverity(answer.stdout.issues, "medium"))
    /\ answer.stdout.lowCount = Len(WithSeverity(answer.stdout.issues, "low"))

-----------------------------------------------------------------------------
(* Escapes in literals: texts over the delimiters, the backslash, the      *)
(* newline and one ordinary character                                      *)

EscapeChars == {"'", "\"", Backtick, Backslash, Newline, "x"}

\* The longest text of delimiters and escapes.
MaxEscape == 5

InitEscape ==
  /\ fs = ProjectFs
  /\ source = <<>>
  /\ unreadable = {}
  /\ files = <<>>
  /\ projectPath = Root
  /\ pc = "strip"
  /\ idx = 1
  /\ exports = <<>>
  /\ imports = <<>>
  /\ parsed = <<>>
  /\ unusedExports = <<>>
  /\ cycles = <<>>
  /\ issues = <<>>
  /\ query \in UNION {[1..n -> EscapeChars] : n \in 0..MaxEscape}
  /\ answer = <<>>

SpecEscape == InitEscape /\ [][NextStrip]_vars

\* The number of backslashes that end right before position k, counted
\* inside a literal opened at position 1.
RECURSIVE BackslashRun(_, _)
BackslashRun(text, k) ==
  IF k <= 2 \/ text[k - 1] # Backslash THEN 0 ELSE 1 + BackslashRun(text, k - 1)

\* Position k follows an odd run of backslashes.
Escaped(text, k) == BackslashRun(text, k) % 2 = 1

\* Position k ends the literal opened at position 1: the matching delimiter,
\* or the newline for a quoted string, not escaped.
Closes(text, k) ==
  /\ ~Escaped(text, k)
  /\ text[k] = text[1] \/ (text[1] # Backtick /\ text[k] = Newline)

\* The first position that ends the literal, the end of the text when none does.
LiteralEnd(text) ==
  IF \E k \in 2..Len(text) : Closes(text, k)
  THEN CHOOSE k \in 2..Len(text) :
         Closes(text, k) /\ \A j \in 2..(k - 1) : ~Closes(text, j)
  ELSE Len(text) + 1

\* C21: in a literal opened at the first character, a backslash and the
\* character after it are both masked, the character after an escaped
\* delimiter is still masked, and the character after the first delimiter that
\* is not escaped is code again.
C21_EscapesAreAtomic ==
  (pc = "stripped" /\ Len(query) >= 2 /\ query[1] \in {"'", "\"", Backtick}) =>
    LET last == LiteralEnd(query) IN
    /\ \A k \in 2..(Len(query) - 1) :
         (k < last /\ query[k] = Backslash /\ ~Escaped(query, k))
           => answer[k] = Blank /\ answer[k + 1] = Blank
    /\ \A k \in 2..(Len(query) - 1) :
         (k < last /\ query[k] = query[1] /\ Escaped(query, k) /\ query[k + 1] = "x")
           => answer[k + 1] = Blank
    /\ (last < Len(query) /\ query[last] = query[1] /\ query[last + 1] = "x")
         => answer[last + 1] = "x"

\* A string with an escaped quote, then the closing quote, then code.
C21_Witness ==
  /\ pc = "stripped"
  /\ query = <<"'", Backslash, "'", "'", "x">>
  /\ answer = <<Blank, Blank, Blank, Blank, "x">>

\* C22: a literal opened at the first character and followed only by
\* ordinary characters up to a newline is closed there: the newline is kept
\* and an ordinary character right after it is copied as code.
C22_UnterminatedClosesAtNewline ==
  (pc = "stripped" /\ Len(query) >= 2 /\ query[1] \in {"'", "\"", Backtick}) =>
    \A k \in 2..Len(query) :
      (query[k] = Newline /\ \A j \in 2..(k - 1) : query[j] = "x") =>
        /\ answer[k] = Newline
        /\ (k < Len(query) /\ query[k + 1] = "x") => answer[k + 1] = "x"

-----------------------------------------------------------------------------
(* Graph assembly                                                          *)

\* C23: after every step the two maps have the same keys, all of them files of
\* the input list; a file that gets its entries gets them in both maps at once,
\* holding the complete records of its extraction; and no step changes the
\* entries of a file merged before.
C23_MergeIsAtomic ==
  [][ /\ DOMAIN exports' = DOMAIN imports'
      /\ DOMAIN exports' \subseteq Range(files')
      /\ \A f \in DOMAIN exports :
           /\ f \in DOMAIN exports'
           /\ exports'[f] = exports[f]
           /\ imports'[f] = imports[f]
      /\ \A f \in DOMAIN exports' \ DOMAIN exports :
           LET full == ExtractFile(f, source[f]).buf IN
           /\ exports'[f] = full.fileExports
           /\ imports'[f] = full.fileImports ]_vars

\* The builder has merged one file with records and has yet to reach another
\* file that has statements.
C23_Witness ==
  /\ pc = "build"
  /\ \E f \in DOMAIN exports : exports[f] # <<>> /\ imports[f] # <<>>
  /\ \E g \in Range(files) \ unreadable : g \notin DOMAIN imports /\ source[g] # <<>>

-----------------------------------------------------------------------------
(* Cycle detection against the cycles of the import graph                  *)

\* C24: findCircularDependencies returns a cycle exactly when the local
\* import graph has a directed cycle.
C24_CycleFoundIffExists ==
  pc = "done" => (cycles # <<>> <=> SimpleCycles # {})

\* A graph whose only cycle, of two files, is found from a start file that is
\* not on it.
C24_Witness ==
  /\ pc = "done"
  /\ Len(cycles) = 1
  /\ files[1] \notin Range(cycles[1])
  /\ Len(cycles[1]) = 2

\* C25: every file on a directed cycle of the local import graph is a member
\* of some cycle findCircularDependencies returns.
C25_CycleMembersReported ==
  pc = "done" =>
    \A c \in SimpleCycles : \A f \in Range(c) :
      \E i \in 1..Len(cycles) : f \in Range(cycles[i])

\* C26: a file with an import record that targets the file itself yields a
\* circular-dependency finding whose cycle is that one file, of severity
\* "high".
C26_SelfImportIsHigh ==
  pc = "done" =>
    \A f \in DOMAIN imports :
      <<f, f>> \in LocalEdges =>
        \E i \in 1..Len(CycleFindings) :
          /\ CycleFindings[i].cycle = <<relative(projectPath, f)>>
          /\ CycleFindings[i].severity = "high"
          /\ cycles[i] = <<f>>

\* A file that imports itself and is also on a cycle of two files.
C26_Witness ==
  /\ pc = "done"
  /\ \E f \in DOMAIN imports :
       /\ <<f, f>> \in LocalEdges
       /\ \E i \in 1..Len(cycles) : f \in Range(cycles[i]) /\ Len(cycles[i]) = 2
  /\ \E i \in 1..Len(cycles) : Len(cycles[i]) = 1

-----------------------------------------------------------------------------
(* One name from two targets: index.ts, parsed by acorn, holds one or two   *)
(* statements that name a.ts or b.ts; a.ts and b.ts export foo, a default,  *)
(* both or nothing                                                          *)

\* The statements of the importing file that name `src`.
ImporterStmts(src) ==
  SourcedStmts(src) \cup
    { Stmt("importNamespace", <<>>, src),
      Stmt("importMixed", <<Name(foo)>>, src) }

ImporterTexts ==
  LET S == ImporterStmts(ToA) \cup ImporterStmts(ToB)
  IN {<<s>> : s \in S} \cup {<<s, t>> : s \in S, t \in S}

ExporterTexts ==
  { <<>>,
    <<Stmt("exportDecl", <<Name(foo)>>, <<>>)>>,
    <<Stmt("exportDefault", <<>>, <<>>)>>,
    <<Stmt("exportDecl", <<Name(foo)>>, <<>>), Stmt("exportDefault", <<>>, <<>>)>> }

InitTwoTargets ==
  /\ fs = ProjectFs
  /\ files = <<FileA, FileB, FileIndex>>
  /\ unreadable = {}
  /\ \E sa \in ExporterTexts : \E sb \in ExporterTexts : \E si \in ImporterTexts :
       source = (FileA :> sa) @@ (FileB :> sb) @@ (FileIndex :> si)
  /\ StartAnalysis

SpecTwoTargets == InitTwoTargets /\ [][Next]_vars

\* C28: when two statements of a file that acorn parses take the same name
\* ("default" and "*" included) from two different resolved targets, the name
\* is in the used set of both targets, and neither target's export of that
\* name is reported unused.
C28_BothTargetsUsed ==
  pc = "done" =>
    \A g \in Merged : \A s, t \in Range(source[g]) :
      (s.src # <<>> /\ t.src # <<>>
         /\ resolveImportPath(g, s.src) # resolveImportPath(g, t.src))
      => \A n \in StmtNames(s) \cap StmtNames(t) :
           \A T \in {resolveImportPath(g, s.src), resolveImportPath(g, t.src)} :
             /\ n \in usedInFile(imports, T)
             /\ (T \in Merged /\ n \in Range(exports[T]))
                  => FindingOf(T, n) \notin Reported

\* index.ts imports foo from a.ts and from b.ts, both export it, and nothing
\* is reported.
C28_Witness ==
  /\ pc = "done"
  /\ source[FileIndex] = <<Stmt("importNamed", <<Name(foo)>>, ToA),
                           Stmt("importNamed", <<Name(foo)>>, ToB)>>
  /\ foo \in Range(exports[FileA])
  /\ foo \in Range(exports[FileB])
  /\ foo \in usedInFile(imports, FileA)
  /\ foo \in usedInFile(imports, FileB)
  /\ Reported = {}

-----------------------------------------------------------------------------
(* The two extractors on one text: index.ts made of statements of the forms *)
(* the visitors handle.  No pattern of the fallback matches                 *)
(* `import d, { a } from S`: after `import` the named pattern needs `{`     *)
(* and the default pattern needs `from` right after the identifier.         *)

CoveredStmts ==
  { Stmt("exportDecl", <<Name(foo)>>, <<>>),
    Stmt("exportList", <<Name(foo)>>, <<>>),
    Stmt("exportList", <<Renamed(foo, bar)>>, <<>>),
    Stmt("exportList", <<Name(foo)>>, ToA),
    Stmt("exportList", <<Renamed(foo, bar)>>, ToB),
    Stmt("exportAll", <<>>, ToA),
    Stmt("exportDefault", <<>>, <<>>),
    Stmt("importNamed", <<Name(foo)>>, ToA),
    Stmt("importNamed", <<Name(foo), Name(bar)>>, ToB),
    Stmt("importDefault", <<>>, ToB),
    Stmt("importNamespace", <<>>, ToA),
    Stmt("importMixed", <<Name(foo)>>, ToA) }

InitCompare ==
  /\ fs = ProjectFs
  /\ source = <<>>
  /\ unreadable = {}
  /\ files = <<FileIndex>>
  /\ projectPath = Root
  /\ pc = "compare"
  /\ idx = 1
  /\ exports = <<>>
  /\ imports = <<>>
  /\ parsed = <<>>
  /\ unusedExports = <<>>
  /\ cycles = <<>>
  /\ issues = <<>>
  /\ \E n \in 1..MaxStmts : query \in [1..n -> CoveredStmts]
  /\ answer = <<>>

\* Both extractors run on the text of files[1], each from empty buffers.
ExtractBoth ==
  /\ pc = "compare"
  /\ answer' = [walk |-> walkSimple(files[1], query, EmptyBuffer),
                regex |-> extractExportsAndImportsViaRegex(query, files[1], EmptyBuffer)]
  /\ pc' = "compared"
  /\ UNCHANGED <<fs, source, unreadable, files, projectPath, idx, exports, imports,
                 parsed, unusedExports, cycles, issues, query>>

NextCompare == ExtractBoth

SpecCompare == InitCompare /\ [][NextCompare]_vars

\* C29: on a text of the covered statement forms the fallback yields the same
\* set of export names and the same set of (imported name, resolved target)
\* records as the walk.
C29_FallbackEqualsWalk ==
  pc = "compared" =>
    /\ Range(answer.regex.fileExports) = Range(answer.walk.fileExports)
    /\ Range(answer.regex.fileImports) = Range(answer.walk.fileImports)

=============================================================================
